---- MODULE Spec2Model ----
(***************************************************************************)
(* crypkit-tracker backend: the token-bucket rate limiter, the cache-aside *)
(* CoinGecko client and the portfolio mutation protocol, as state machines.*)
(*                                                                         *)
(* Time is counted in whole seconds (now).  The limiter's token count is   *)
(* kept in refill units: one second of elapsed time refills exactly one    *)
(* unit (elapsed * rate), so one token is SecondsPerToken = 1/rate units   *)
(* and acquire(n) needs n * SecondsPerToken units.                         *)
(***************************************************************************)
EXTENDS Integers, Sequences, FiniteSets, TLC

\* ---------------------------------------------------------------- bounds
\* 1/rate: seconds of refill that make one token
SecondsPerToken == 2
\* max_tokens of the limiter under check
MaxTokens == 2
\* the clock stops advancing here
MaxTime == 6

\* the client calls, or the API requests, started in one run
MaxCalls == 3

Callers == {"t1", "t2", "t3"}
NoTask == "none"

VARIABLES
    now,          \* time.time(), in seconds
    tokens,       \* TokenBucketRateLimiter.tokens, in refill units
    last_refill,  \* TokenBucketRateLimiter.last_refill
    lock,         \* holder of TokenBucketRateLimiter._lock, or NoTask
    lpc,          \* where each caller of acquire() stands
    req,          \* the argument of each caller's acquire(tokens)
    wake,         \* earliest time each caller's asyncio.sleep may return
    debited,      \* total units debited since construction (history)
    cache,        \* the Redis keys of the client: value and expiry
    upstream_list,\* what the upstream coins/list endpoint answers
    cpc,          \* where each task stands inside a CoinGeckoService call
    cop,          \* the call each task is in: operation and arguments
    craw,         \* the raw list a get_coins_list call parses
    cret,         \* what the call returned or raised
    calls,        \* client calls or API requests started so far (history)
    requests,     \* upstream HTTP requests issued so far (history)
    prev_search,  \* the last search_coins call that completed (history)
    session,      \* self.session of the client, with the sessions made and closed
    coins,        \* the committed rows of table coins, by id
    entries,      \* the committed rows of table portfolio_entries, by id
    next_id,      \* the sequence behind portfolio_entries.id
    spc,          \* where each API request stands
    sop,          \* the request each task serves: endpoint and arguments
    stx,          \* the writes of each request's session, not yet committed
    sloc,         \* the local variables of the service method
    sret,         \* the service outcome and the HTTP status
    ledger,       \* per coin: the add-coin requests committed (history)
    started,      \* when the first acquire() was entered, or NotStarted (history)
    stored        \* per key: the last RedisCache.set made for it (history)

lvars == <<tokens, last_refill, lock, lpc, req, wake, debited>>
cvars == <<cache, upstream_list, cpc, cop, craw, cret, calls, requests, prev_search,
          session>>
svars == <<coins, entries, next_id, spc, sop, stx, sloc, sret, ledger>>
hvars == <<started, stored>>
vars == <<now, lvars, cvars, svars, hvars>>

\* ------------------------------------------------------- rate limiter
max_tokens == MaxTokens * SecondsPerToken

Min(a, b) == IF a < b THEN a ELSE b

\* the argument values acquire() is called with: 1 .. capacity, and one
\* request above the capacity
ReqSizes == 1 .. (MaxTokens + 1)

Need(n) == n * SecondsPerToken

\* __init__: a full bucket
InitLimiter ==
    /\ tokens = max_tokens
    /\ last_refill = 0
    /\ lock = NoTask
    /\ lpc = [p \in Callers |-> "idle"]
    /\ req = [p \in Callers |-> 0]
    /\ wake = [p \in Callers |-> 0]
    /\ debited = 0

\* the longest ttl handed to RedisCache.set by a direct caller
MaxTtl == 2

\* (mutant) a refill that forgets the cap
RefilledTokensUncapped == tokens + (now - last_refill)

\* _refill: the token count after a refill at time `now`
RefilledTokens == Min(tokens + (now - last_refill), max_tokens)

\* (mutant) a capacity check that is off by one
OverCapacityLax(n) == n > MaxTokens + 1

\* the capacity check that opens acquire()
OverCapacity(n) == n > MaxTokens

\* (mutant) a lock that excludes nobody
LockAlwaysFree == TRUE

\* asyncio.Lock: free when nobody holds it
LockFree == lock = NoTask

\* acquire(n) with n > max_tokens: ValueError before the lock is touched
AcquireReject(p, n) ==
    /\ lpc[p] = "idle"
    /\ OverCapacity(n)
    /\ req' = [req EXCEPT ![p] = n]
    /\ lpc' = [lpc EXCEPT ![p] = "raised"]
    /\ UNCHANGED <<now, tokens, last_refill, lock, wake, debited>>

\* async with self._lock, then the first _refill
EnterLocked(p) ==
    /\ lock' = p
    /\ tokens' = RefilledTokens
    /\ last_refill' = now
    /\ lpc' = [lpc EXCEPT ![p] = "locked"]

\* acquire(n), n within capacity: take the lock or queue for it
AcquireEnter(p, n) ==
    /\ lpc[p] = "idle"
    /\ ~OverCapacity(n)
    /\ req' = [req EXCEPT ![p] = n]
    /\ IF LockFree
         THEN EnterLocked(p)
         ELSE /\ lpc' = [lpc EXCEPT ![p] = "waiting"]
              /\ UNCHANGED <<tokens, last_refill, lock>>
    /\ UNCHANGED <<now, wake, debited>>

\* a queued caller gets the lock once it is released
LockGrant(p) ==
    /\ lpc[p] = "waiting"
    /\ LockFree
    /\ EnterLocked(p)
    /\ UNCHANGED <<now, req, wake, debited>>

\* (mutant) a debit that leaves the block without releasing the lock
DebitKeepingLock(p) ==
    /\ tokens' = tokens - Need(req[p])
    /\ debited' = debited + Need(req[p])
    /\ lock' = lock
    /\ lpc' = [lpc EXCEPT ![p] = "done"]

\* self.tokens -= tokens, and the lock is released on leaving the block
Debit(p) ==
    /\ tokens' = tokens - Need(req[p])
    /\ debited' = debited + Need(req[p])
    /\ lock' = NoTask
    /\ lpc' = [lpc EXCEPT ![p] = "done"]

\* (mutant) a check that also waits when the tokens just suffice
CheckTokensOffByOne(p) ==
    /\ lpc[p] = "locked"
    /\ IF tokens <= Need(req[p])
         THEN /\ wake' = [wake EXCEPT ![p] = now + (Need(req[p]) - tokens)]
              /\ lpc' = [lpc EXCEPT ![p] = "sleeping"]
              /\ UNCHANGED <<tokens, lock, debited>>
         ELSE /\ Debit(p)
              /\ UNCHANGED wake
    /\ UNCHANGED <<now, last_refill, req>>

\* if self.tokens < tokens: wait_time = (tokens - self.tokens) / rate; sleep
\* otherwise consume at once
CheckTokens(p) ==
    /\ lpc[p] = "locked"
    /\ IF tokens < Need(req[p])
         THEN /\ wake' = [wake EXCEPT ![p] = now + (Need(req[p]) - tokens)]
              /\ lpc' = [lpc EXCEPT ![p] = "sleeping"]
              /\ UNCHANGED <<tokens, lock, debited>>
         ELSE /\ Debit(p)
              /\ UNCHANGED wake
    /\ UNCHANGED <<now, last_refill, req>>

\* (mutant) a sleep that may return before wait_time is over
WakeRefillEarly(p) ==
    /\ lpc[p] = "sleeping"
    /\ tokens' = RefilledTokens
    /\ last_refill' = now
    /\ lpc' = [lpc EXCEPT ![p] = "refilled"]
    /\ UNCHANGED <<now, lock, req, wake, debited>>

\* asyncio.sleep returns no earlier than wait_time later; _refill again
WakeRefill(p) ==
    /\ lpc[p] = "sleeping"
    /\ now >= wake[p]
    /\ tokens' = RefilledTokens
    /\ last_refill' = now
    /\ lpc' = [lpc EXCEPT ![p] = "refilled"]
    /\ UNCHANGED <<now, lock, req, wake, debited>>

\* the debit after the post-wait refill
WakeDebit(p) ==
    /\ lpc[p] = "refilled"
    /\ Debit(p)
    /\ UNCHANGED <<now, last_refill, req, wake>>

\* the caller has its answer and may call again
AcquireReturn(p) ==
    /\ lpc[p] \in {"done", "raised"}
    /\ lpc' = [lpc EXCEPT ![p] = "idle"]
    /\ req' = [req EXCEPT ![p] = 0]
    /\ wake' = [wake EXCEPT ![p] = 0]
    /\ UNCHANGED <<now, tokens, last_refill, lock, debited>>

\* the steps a caller takes inside acquire() once it has entered
LimiterStep(p) ==
    \/ LockGrant(p)
    \/ CheckTokens(p)
    \/ WakeRefill(p)
    \/ WakeDebit(p)


\* ---------------------------------------------------------- JSON values
\* a string is a sequence of characters; JSON null is not one
Null == <<"null">>
IsStr(x) == x # Null

\* str.lower() on one character and on a string
LowerChar(c) ==
    CASE c = "B" -> "b"
      [] c = "E" -> "e"
      [] c = "T" -> "t"
      [] OTHER -> c

Lower(str) == [i \in 1 .. Len(str) |-> LowerChar(str[i])]

\* Python's `q in s` on strings: q is a contiguous part of s
Contains(q, str) ==
    \E i \in 0 .. (Len(str) - Len(q)) :
        \A j \in 1 .. Len(q) : str[i + j] = q[j]

\* ------------------------------------------------------------ the cache
CoinIds == {"btc", "eth"}
NullId == "null"

COINS_LIST_CACHE_KEY == <<"coingecko:coins:list">>
COIN_DETAIL_CACHE_PREFIX == "coingecko:coin:"
DetailKey(coin_id) == <<COIN_DETAIL_CACHE_PREFIX, coin_id>>
CacheKeys == {COINS_LIST_CACHE_KEY} \cup {DetailKey(c) : c \in CoinIds}

\* settings.COINGECKO_CACHE_TTL, in seconds (configurable)
ListTTL == 3
\* the ttl of a cached detail record
DetailTTL == 5

NoExpiry == -1
NoValue == [set |-> FALSE, val |-> <<>>, exp |-> NoExpiry]

\* (mutant) a set that drops its ttl
CacheSetForever(key, value, ttl) ==
    [cache EXCEPT ![key] = [set |-> TRUE, val |-> value, exp |-> NoExpiry]]

\* RedisCache.set: json.dumps(value), SET key value EX ttl
CacheSet(key, value, ttl) ==
    [cache EXCEPT ![key] =
        [set |-> TRUE, val |-> value,
         exp |-> IF ttl = NoExpiry THEN NoExpiry ELSE now + ttl]]

\* Redis keeps a key until its expiry time
Live(key) ==
    /\ cache[key].set
    /\ cache[key].exp = NoExpiry \/ now < cache[key].exp

\* d seconds pass; Redis drops the keys whose expiry time has come
Elapse(d) ==
    /\ now + d <= MaxTime
    /\ now' = now + d
    /\ cache' = [k \in CacheKeys |->
                   IF cache[k].set /\ cache[k].exp # NoExpiry /\ now + d >= cache[k].exp
                     THEN NoValue ELSE cache[k]]
    /\ UNCHANGED <<lvars, upstream_list, cpc, cop, craw, cret, calls, requests,
                   prev_search, svars, hvars,
                   session>>

\* a second passes
Tick == Elapse(1)

\* the history variables before any call is made
NotStarted == -1
NoSet == [set |-> FALSE, val |-> <<>>, at |-> 0, ttl |-> NoExpiry]
InitHistory ==
    /\ started = NotStarted
    /\ stored = [k \in CacheKeys |-> NoSet]

\* `if cached_data:` after RedisCache.get: a stored, unexpired, non-empty value
CacheHit(key) == Live(key) /\ cache[key].val # <<>>

\* RedisCache.get: GET key answers the value of a key that is stored and
\* has not expired; json.loads of it, or None
NotFound == [kind |-> "None", val |-> <<>>, count |-> 0]
CacheGet(key) ==
    IF Live(key)
      THEN [kind |-> "ok", val |-> <<cache[key].val>>, count |-> 1]
      ELSE NotFound

\* ----------------------------------------------------- upstream payloads
\* one element of the coins/list response
Item(id, symbol, name) == [id |-> id, symbol |-> symbol, name |-> name]

BtcItem == Item("btc", <<"b", "t", "c">>, <<"B", "i", "t">>)
EthItem == Item("eth", <<"e", "t", "h">>, <<"E", "t", "h">>)
BadItem == Item("bad", <<"b", "a", "d">>, Null)

\* the coins/list responses under check
UpstreamLists ==
    { <<BtcItem, EthItem>>,
      <<BtcItem, BadItem, EthItem>>,
      <<>> }

\* CoinBase.model_validate: id, symbol and name must be strings
CoinBaseValid(item) ==
    /\ item.id # NullId
    /\ IsStr(item.symbol)
    /\ IsStr(item.name)

\* numbers: a JSON float, a Decimal, or null; v counts tenths
Num(ty, v) == [ty |-> ty, v |-> v]
NullNum == Num("null", 0)

\* json_serializer: Decimal -> float; json.loads gives the float back
ToFloat(x) == IF x.ty = "Decimal" THEN Num("float", x.v) ELSE x
\* pydantic Optional[Decimal]: a float becomes the Decimal of its repr
ToDecimal(x) == IF x.ty = "float" THEN Num("Decimal", x.v) ELSE x

\* a price above the largest float4 (3.4e38), which no REAL column holds
Huge == 1000 * 1000 * 1000

\* the coins/{id} responses under check: id, symbol, market_data.current_price.usd
\* and market_data.price_change_percentage_24h
Detail(id, symbol, price, change) ==
    [id |-> id, symbol |-> symbol, price |-> price, change |-> change]

UpstreamDetails(c) ==
    { Detail(c, <<"s">>, Num("float", 1), Num("float", 3)),
      Detail(c, <<"s">>, Num("float", 2), NullNum),
      Detail(c, <<"s">>, NullNum, Num("float", 3)),
      Detail(c, <<"s">>, Num("float", Huge), NullNum),
      Detail(c, Null, Num("float", 1), NullNum),
      Detail("", <<"s">>, Num("float", 1), NullNum) }

\* CoinDetail validation of the processed data
CoinDetailValid(d) ==
    /\ d.id # NullId
    /\ IsStr(d.symbol)
    /\ d.price.ty \in {"null", "float", "Decimal"}
    /\ d.created_at >= 0

\* CoinDetail.model_validate(processed_data): the record it builds
CoinDetailOf(d, stamp) ==
    [id |-> d.id, symbol |-> d.symbol, price |-> ToDecimal(d.price),
     change |-> d.change, created_at |-> stamp]

\* model_dump() as json.dumps(default=json_serializer) stores it
Serialized(m) == [m EXCEPT !.price = ToFloat(m.price)]

\* a record under a detail key that CoinDetail(**cached_data) rejects
InvalidRecord ==
    [id |-> NullId, symbol |-> Null, price |-> NullNum, change |-> NullNum,
     created_at |-> -1]

\* ---------------------------------------------------- CoinGeckoService
ClientTasks == {"t1"}

Queries == { <<"b">>, <<"T", "h">>, <<"x">> }

NoOp == [op |-> "none", force |-> FALSE, coin |-> NullId, q |-> <<>>,
         prev |-> <<>>, key |-> <<>>, skip |-> 0, limit |-> 0]
NoRet == [kind |-> "none", val |-> <<>>, count |-> 0]
\* what a call has read and done so far: the cached value it found, the
\* upstream answer ("none", "error" or "ok") and its processed data, the
\* requests it sent and the acquire() calls it made
NoRaw == [got |-> FALSE, data |-> <<>>, http |-> "none", resp |-> <<>>,
          sent |-> 0, acquired |-> 0]

Ok(val) == [kind |-> "ok", val |-> val, count |-> Len(val)]
Raised(exc) == [kind |-> exc, val |-> <<>>, count |-> 0]

\* __init__: self.session = None
NoSession == [state |-> "none", made |-> 0, shut |-> 0]

\* (mutant) a session made for every request
GetSessionFresh(s) == [s EXCEPT !.state = "open", !.made = @ + 1]

\* _get_session: a ClientSession is made when there is none or the one
\* held is closed
GetSession(s) ==
    IF s.state \in {"none", "closed"}
      THEN [s EXCEPT !.state = "open", !.made = @ + 1]
      ELSE s

InitClient ==
    /\ session = NoSession
    /\ cache = [k \in CacheKeys |-> NoValue]
    /\ upstream_list \in UpstreamLists
    /\ cpc = [t \in Callers |-> "idle"]
    /\ cop = [t \in Callers |-> NoOp]
    /\ craw = [t \in Callers |-> NoRaw]
    /\ cret = [t \in Callers |-> NoRet]
    /\ calls = 0
    /\ requests = 0
    /\ prev_search = <<>>

\* (mutant) a match that lowers the names and symbols but not the query
MatchesQueryAsTyped(q, coin) ==
    Contains(q, Lower(coin.name)) \/ Contains(q, Lower(coin.symbol))

\* search_coins: the match on name and symbol, and the pair it returns
Matches(q, coin) ==
    Contains(Lower(q), Lower(coin.name)) \/ Contains(Lower(q), Lower(coin.symbol))

SearchResult(q, coins_list) ==
    LET Hit(coin) == Matches(q, coin)
        results == SelectSeq(coins_list, Hit)
    IN [kind |-> "ok", val |-> results, count |-> Len(results)]

\* what the caller of get_coins_list does with its outcome: search_coins
\* filters a returned list and lets an exception pass
Outcome(op, ret) ==
    IF op.op = "search" /\ ret.kind = "ok" THEN SearchResult(op.q, ret.val)
    ELSE IF op.op = "coins" /\ op.q # <<>> /\ ret.kind = "ok"
      THEN Ok(SearchResult(op.q, ret.val).val)
    ELSE ret

\* the call ends: returned value or exception, and the search history
Finish(t, ret) ==
    /\ cpc' = [cpc EXCEPT ![t] = "done"]
    /\ cret' = [cret EXCEPT ![t] = Outcome(cop[t], ret)]
    /\ prev_search' =
         IF cop[t].op = "search"
           THEN <<[q |-> cop[t].q, ret |-> Outcome(cop[t], ret)]>>
           ELSE prev_search

\* (mutant) a call that looks into the cache first even when forced
ListCallCacheFirst(t) ==
    /\ cpc[t] = "idle"
    /\ calls < MaxCalls
    /\ calls' = calls + 1
    /\ \E force \in BOOLEAN :
        /\ cop' = [cop EXCEPT ![t] = [NoOp EXCEPT !.op = "list", !.force = force]]
        /\ cpc' = [cpc EXCEPT ![t] = "list_get"]
    /\ craw' = [craw EXCEPT ![t] = NoRaw]
    /\ cret' = [cret EXCEPT ![t] = NoRet]
    /\ UNCHANGED <<now, lvars, cache, upstream_list, requests, prev_search,
                   session>>

\* get_coins_list(force_refresh) and search_coins(query) are called
ListCall(t) ==
    /\ cpc[t] = "idle"
    /\ calls < MaxCalls
    /\ calls' = calls + 1
    /\ \E force \in BOOLEAN :
        /\ cop' = [cop EXCEPT ![t] = [NoOp EXCEPT !.op = "list", !.force = force]]
        /\ cpc' = [cpc EXCEPT ![t] = IF force THEN "acquire" ELSE "list_get"]
    /\ craw' = [craw EXCEPT ![t] = NoRaw]
    /\ cret' = [cret EXCEPT ![t] = NoRet]
    /\ UNCHANGED <<now, lvars, cache, upstream_list, requests, prev_search,
                   session>>

SearchCall(t) ==
    /\ cpc[t] = "idle"
    /\ calls < MaxCalls
    /\ calls' = calls + 1
    /\ \E q \in Queries :
        cop' = [cop EXCEPT ![t] =
                  [NoOp EXCEPT !.op = "search", !.q = q, !.prev = prev_search]]
    /\ cpc' = [cpc EXCEPT ![t] = "list_get"]
    /\ craw' = [craw EXCEPT ![t] = NoRaw]
    /\ cret' = [cret EXCEPT ![t] = NoRet]
    /\ UNCHANGED <<now, lvars, cache, upstream_list, requests, prev_search,
                   session>>

\* the query strings of GET /coins/: skip and limit, and search (absent, or
\* a query)
Skips == 0 .. 1
Limits == 1 .. 2
CoinsSearches == { <<>>, <<"b">> }

\* GET /coins/?skip=s&limit=l&search=q: the endpoint declares the parameter
\* search only; with `if search:` it returns the results of search_coins,
\* and else the list get_coins_list returns
CoinsCall(t) ==
    /\ cpc[t] = "idle"
    /\ calls < MaxCalls
    /\ calls' = calls + 1
    /\ \E s \in Skips, l \in Limits, q \in CoinsSearches :
        cop' = [cop EXCEPT ![t] =
                  [NoOp EXCEPT !.op = "coins", !.skip = s, !.limit = l, !.q = q]]
    /\ cpc' = [cpc EXCEPT ![t] = "list_get"]
    /\ craw' = [craw EXCEPT ![t] = NoRaw]
    /\ cret' = [cret EXCEPT ![t] = NoRet]
    /\ UNCHANGED <<now, lvars, cache, upstream_list, requests, prev_search,
                   session>>

\* (variant) the cached list parsed with the per-entry try/except of the
\* fetch path; C8 and C9 hold of it
ParseCachedSkipping(data) == Ok(SelectSeq(data, CoinBaseValid))

\* [CoinBase.model_validate(coin) for coin in cached_data]: one entry that
\* fails raises out of the comprehension
ParseCached(data) ==
    IF \A i \in 1 .. Len(data) : CoinBaseValid(data[i])
      THEN Ok(data)
      ELSE Raised("ValidationError")

\* (mutant) a fetch path that lets the first bad entry abort the call
ParseFetchedStrict(data) ==
    IF \A i \in 1 .. Len(data) : CoinBaseValid(data[i])
      THEN Ok(data)
      ELSE Raised("ValidationError")

\* the loop over coins_list_data: an entry that fails is logged and skipped
ParseFetched(data) == Ok(SelectSeq(data, CoinBaseValid))

\* cached_data = await redis_cache.get(COINS_LIST_CACHE_KEY)
ListCacheGet(t) ==
    /\ cpc[t] = "list_get"
    /\ IF CacheHit(COINS_LIST_CACHE_KEY)
         THEN /\ craw' = [craw EXCEPT ![t].got = TRUE,
                                      ![t].data = cache[COINS_LIST_CACHE_KEY].val]
              /\ Finish(t, ParseCached(cache[COINS_LIST_CACHE_KEY].val))
         ELSE /\ cpc' = [cpc EXCEPT ![t] = "acquire"]
              /\ UNCHANGED <<craw, cret, prev_search>>
    /\ UNCHANGED <<now, lvars, cache, upstream_list, cop, calls, requests,
                   session>>

\* _api_request: await coingecko_rate_limiter.acquire()
ClientAcquire(t) ==
    /\ cpc[t] = "acquire"
    /\ AcquireEnter(t, 1)
    /\ craw' = [craw EXCEPT ![t].acquired = @ + 1]
    /\ UNCHANGED <<cache, upstream_list, cpc, cop, cret, calls, requests, prev_search,
                   session>>

ClientLimiterStep(t) ==
    /\ cpc[t] = "acquire"
    /\ LimiterStep(t)
    /\ UNCHANGED cvars

ClientAcquired(t) ==
    /\ cpc[t] = "acquire"
    /\ lpc[t] = "done"
    /\ AcquireReturn(t)
    /\ cpc' = [cpc EXCEPT ![t] = "http"]
    /\ UNCHANGED <<cache, upstream_list, cop, craw, cret, calls, requests, prev_search,
                   session>>

\* (mutant) a failed request is tried again
HttpErrorRetry(t) ==
    /\ cpc[t] = "http"
    /\ session' = GetSession(session)
    /\ requests' = requests + 1
    /\ craw' = [craw EXCEPT ![t].http = "error", ![t].sent = @ + 1]
    /\ cpc' = [cpc EXCEPT ![t] = "acquire"]
    /\ UNCHANGED <<now, lvars, cache, upstream_list, cop, cret, calls, prev_search>>

\* (mutant) a failed request hands its token back to the limiter
HttpErrorRefund(t) ==
    /\ cpc[t] = "http"
    /\ session' = GetSession(session)
    /\ requests' = requests + 1
    /\ craw' = [craw EXCEPT ![t].http = "error", ![t].sent = @ + 1]
    /\ Finish(t, Raised("ClientError"))
    /\ tokens' = Min(tokens + Need(1), max_tokens)
    /\ debited' = debited - Need(1)
    /\ UNCHANGED <<now, last_refill, lock, lpc, req, wake, cache, upstream_list,
                   cop, calls>>

\* (mutant) a failed request that drops what the cache holds under the key
\* of the call
HttpErrorClearing(t) ==
    /\ cpc[t] = "http"
    /\ session' = GetSession(session)
    /\ requests' = requests + 1
    /\ craw' = [craw EXCEPT ![t].http = "error", ![t].sent = @ + 1]
    /\ Finish(t, Raised("ClientError"))
    /\ cache' = [cache EXCEPT ![IF cop[t].op = "detail" THEN DetailKey(cop[t].coin)
                                ELSE COINS_LIST_CACHE_KEY] = NoValue]
    /\ UNCHANGED <<now, lvars, upstream_list, cop, calls>>

\* session.get(...) or raise_for_status() fails: the ClientError is logged
\* and re-raised
HttpError(t) ==
    /\ cpc[t] = "http"
    /\ session' = GetSession(session)
    /\ requests' = requests + 1
    /\ craw' = [craw EXCEPT ![t].http = "error", ![t].sent = @ + 1]
    /\ Finish(t, Raised("ClientError"))
    /\ UNCHANGED <<now, lvars, cache, upstream_list, cop, calls>>

\* coins/list answers: the raw data is cached with the list ttl, then parsed
HttpList(t) ==
    /\ cpc[t] = "http"
    /\ session' = GetSession(session)
    /\ cop[t].op \in {"list", "search", "coins"}
    /\ requests' = requests + 1
    /\ craw' = [craw EXCEPT ![t].got = TRUE, ![t].data = upstream_list,
                            ![t].http = "ok", ![t].sent = @ + 1]
    /\ cache' = CacheSet(COINS_LIST_CACHE_KEY, upstream_list, ListTTL)
    /\ Finish(t, ParseFetched(upstream_list))
    /\ UNCHANGED <<now, lvars, upstream_list, cop, calls>>

\* get_coin_details(coin_id) is called, for one of the coin ids given
DetailCallFor(t, ids) ==
    /\ cpc[t] = "idle"
    /\ calls < MaxCalls
    /\ calls' = calls + 1
    /\ \E c \in ids :
        cop' = [cop EXCEPT ![t] = [NoOp EXCEPT !.op = "detail", !.coin = c]]
    /\ cpc' = [cpc EXCEPT ![t] = "detail_get"]
    /\ craw' = [craw EXCEPT ![t] = NoRaw]
    /\ cret' = [cret EXCEPT ![t] = NoRet]
    /\ UNCHANGED <<now, lvars, cache, upstream_list, requests, prev_search,
                   session>>

DetailCall(t) == DetailCallFor(t, CoinIds)

\* (mutant) a call that goes to the upstream service without a look into
\* the cache
DetailCacheSkipped(t) ==
    /\ cpc[t] = "detail_get"
    /\ cpc' = [cpc EXCEPT ![t] = "acquire"]
    /\ UNCHANGED <<craw, cret, prev_search>>
    /\ UNCHANGED <<now, lvars, cache, upstream_list, cop, calls, requests,
                   session>>

\* cached_data = await redis_cache.get(cache_key); CoinDetail(**cached_data),
\* and on ValidationError a warning and on to the fetch
DetailCacheGet(t) ==
    /\ cpc[t] = "detail_get"
    /\ LET key == DetailKey(cop[t].coin) IN
         IF CacheHit(key)
           THEN /\ craw' = [craw EXCEPT ![t].got = TRUE, ![t].data = <<cache[key].val>>]
                /\ IF CoinDetailValid(cache[key].val)
                     THEN Finish(t, Ok(<<CoinDetailOf(cache[key].val, cache[key].val.created_at)>>))
                     ELSE /\ cpc' = [cpc EXCEPT ![t] = "acquire"]
                          /\ UNCHANGED <<cret, prev_search>>
           ELSE /\ cpc' = [cpc EXCEPT ![t] = "acquire"]
                /\ UNCHANGED <<craw, cret, prev_search>>
    /\ UNCHANGED <<now, lvars, cache, upstream_list, cop, calls, requests,
                   session>>

\* processed_data: the fields picked from the coins/{id} response; created_at
\* defaults to the time of validation
Processed(d) ==
    [id |-> d.id, symbol |-> d.symbol, price |-> d.price, change |-> d.change,
     created_at |-> now]

\* (mutant) the processed data cached before it is validated
FetchedDetailCachedFirst(key, processed) ==
    [cache |-> CacheSet(key, processed, DetailTTL),
     ret |-> IF CoinDetailValid(processed)
               THEN Ok(<<CoinDetailOf(processed, now)>>)
               ELSE Raised("ValidationError")]

\* CoinDetail.model_validate(processed_data): a ValidationError is logged
\* and raised again; a valid record is dumped, cached for 5 seconds and
\* returned.  The cache after the call, and what the call returns.
FetchedDetail(key, processed) ==
    IF CoinDetailValid(processed)
      THEN [cache |-> CacheSet(key, Serialized(CoinDetailOf(processed, now)), DetailTTL),
            ret |-> Ok(<<CoinDetailOf(processed, now)>>)]
      ELSE [cache |-> cache, ret |-> Raised("ValidationError")]

\* coins/{id} answers: processed_data is built, validated and cached
HttpDetail(t) ==
    /\ cpc[t] = "http"
    /\ session' = GetSession(session)
    /\ cop[t].op = "detail"
    /\ requests' = requests + 1
    /\ \E d \in UpstreamDetails(cop[t].coin) :
         LET fetched == FetchedDetail(DetailKey(cop[t].coin), Processed(d))
         IN /\ craw' = [craw EXCEPT ![t].http = "ok", ![t].resp = <<Processed(d)>>,
                                    ![t].sent = @ + 1]
            /\ cache' = fetched.cache
            /\ Finish(t, fetched.ret)
    /\ UNCHANGED <<now, lvars, upstream_list, cop, calls>>

\* the caller takes the result
ClientReturn(t) ==
    /\ cpc[t] = "done"
    /\ cpc' = [cpc EXCEPT ![t] = "idle"]
    /\ cop' = [cop EXCEPT ![t] = NoOp]
    /\ craw' = [craw EXCEPT ![t] = NoRaw]
    /\ cret' = [cret EXCEPT ![t] = NoRet]
    /\ UNCHANGED <<now, lvars, cache, upstream_list, calls, requests, prev_search,
                   session>>

\* the keys, the JSON values (lists of string records, which json.dumps and
\* json.loads give back unchanged) and the ttl arguments of the direct
\* calls of RedisCache under check
DirectKeys == {COINS_LIST_CACHE_KEY, DetailKey("btc")}
DirectValues == { <<BtcItem>>, <<>> }
DirectTtls == {NoExpiry} \cup (1 .. MaxTtl)

\* await redis_cache.set(key, value, ttl)
CacheSetCall(t, key, value, ttl) ==
    /\ cpc[t] = "idle"
    /\ cache' = CacheSet(key, value, ttl)
    /\ stored' = [stored EXCEPT ![key] =
                    [set |-> TRUE, val |-> value, at |-> now, ttl |-> ttl]]
    /\ UNCHANGED <<now, lvars, upstream_list, cpc, cop, craw, cret, calls,
                   requests, prev_search, svars, started,
                   session>>

\* await redis_cache.get(key)
CacheGetCall(t, key) ==
    /\ cpc[t] = "idle"
    /\ cpc' = [cpc EXCEPT ![t] = "done"]
    /\ cop' = [cop EXCEPT ![t] = [NoOp EXCEPT !.op = "get", !.key = key]]
    /\ cret' = [cret EXCEPT ![t] = CacheGet(key)]
    /\ UNCHANGED <<now, lvars, cache, upstream_list, craw, calls, requests,
                   prev_search, svars, hvars,
                   session>>

\* another writer of the shared Redis leaves a record of a different shape
\* under a detail key
ForeignCacheWrite(c) ==
    /\ cache[DetailKey(c)] # [set |-> TRUE, val |-> InvalidRecord, exp |-> NoExpiry]
    /\ cache' = [cache EXCEPT ![DetailKey(c)] =
                   [set |-> TRUE, val |-> InvalidRecord, exp |-> NoExpiry]]
    /\ UNCHANGED <<now, lvars, upstream_list, cpc, cop, craw, cret, calls,
                   requests, prev_search,
                   session>>

\* --------------------------------------------------------- REAL columns
\* A Decimal is kept exactly as t/10 + r/10^10: t whole tenths and a
\* residual r in units of 10^-10.  Request amounts are whole tenths, or
\* (Under) a positive amount too small for the column.
Dec(t, r) == [t |-> t, r |-> r, u |-> 0]
\* a positive Decimal below the range of float4 and of "%.10f": u units of
\* 10^-46 (the smallest positive float4 is 2^-149, about 1.4 * 10^-45)
Under(u) == [t |-> 0, r |-> 0, u |-> u]
NullDec == Dec(-1, 0)

\* Decimal + Decimal
DecAdd(x, y) ==
    [t |-> x.t + y.t, r |-> x.r + y.r,
     u |-> IF x.t + y.t = 0 /\ x.r + y.r = 0 THEN x.u + y.u ELSE 0]

\* a Decimal field of a CoinDetail as the ORM attribute receives it
ToDec(p) == IF p.ty = "null" THEN NullDec ELSE Dec(p.v, 0)

RECURSIVE Pow(_, _)
Pow(b, n) == IF n = 0 THEN 1 ELSE b * Pow(b, n - 1)

\* PostgreSQL REAL is float4: 24 bits of mantissa
MantissaBits == 24
\* decimal places of `"%.<scale>f" % value` when the column is read back:
\* SQLAlchemy's default for amount, decimal_return_scale for current_price
AmountScale == 10
PriceScale == 8

\* x >= 2^j
GePow2(x, j) ==
    IF j >= 0
      THEN x.t > 10 * Pow(2, j) \/ (x.t = 10 * Pow(2, j) /\ x.r >= 0)
      ELSE x.t * Pow(2, -j) > 10 \/ (x.t * Pow(2, -j) = 10 /\ x.r >= 0)

\* base + num/den rounded to the nearest integer, ties to even
RoundHalfEven(num, den, base) ==
    LET low == base + (num \div den)
        rem == num % den
    IN IF 2 * rem > den THEN low + 1
       ELSE IF 2 * rem < den THEN low
       ELSE IF low % 2 = 0 THEN low ELSE low + 1

\* the binary exponent of x: 2^(MantissaBits-1) <= x * 2^e < 2^MantissaBits,
\* for 1/16 <= x < 16
Float4Exp(x) ==
    CHOOSE e \in (MantissaBits - 4) .. (MantissaBits + 3) :
        GePow2(x, MantissaBits - 1 - e) /\ ~GePow2(x, MantissaBits - e)

\* the float4 nearest to x is m / 2^e, with m = round(x * 2^e)
Float4Mantissa(x, e) ==
    LET a == x.t * Pow(2, e)
        num == (a % 10) * Pow(5, 9) + x.r * Pow(2, e - 9)
    IN RoundHalfEven(num, 2 * Pow(5, 10), a \div 10)

\* Decimal("%.<scale>f" % (m / 2^e)), written around the tenths t
Float4ToDecimal(m, e, t, scale) ==
    LET d == 10 * m - t * Pow(2, e)
        unit == Pow(10, 10 - scale)
    IN Dec(t, unit * RoundHalfEven(d * Pow(5, 9), Pow(2, e - 9) * unit, 0))

\* a REAL(asdecimal=True) column: what a SELECT gives back for a stored x
RealColumn(x, scale) ==
    IF x = NullDec THEN NullDec
    ELSE IF x.t = 0 /\ x.r = 0 THEN Dec(0, 0)
    ELSE LET e == Float4Exp(x)
         IN Float4ToDecimal(Float4Mantissa(x, e), e, x.t, scale)

\* the value is within the range of float4
FitsReal(x) == x.t < Huge

\* ------------------------------------------------------ portfolio store
\* Each API request runs in its own session and transaction (get_db) under
\* READ COMMITTED: a SELECT sees the committed rows and the session's own
\* flushed writes; the writes reach the tables when get_db commits.
StoreTasks == {"t1", "t2"}
CoinKeys == CoinIds \cup {""}
AmountTenths == {1, 2}
\* the coin of the requests that change entries, and the amount of the
\* requests that fill a portfolio before a refresh
OneCoin == {"btc"}
OneAmount == {1}
EntryIds == 1 .. MaxCalls

NoCoin == [set |-> FALSE, price |-> NullDec, change |-> NullNum]
NoRow == [coin_id |-> NullId, amount |-> NullDec]
NoCoinWrite == [op |-> "none", price |-> NullDec, change |-> NullNum, chg |-> FALSE]
NoWrite == [op |-> "none", id |-> 0, row |-> NoRow]
NoTx == [coins |-> [c \in CoinKeys |-> NoCoinWrite], ent |-> NoWrite]
NoReq == [kind |-> "none", coin |-> NullId, id |-> 0, amount |-> 0, under |-> 0,
          solo |-> FALSE, q |-> <<>>, limit |-> 0]
\* the amount of a request body as a Decimal
ReqAmount(r) == [t |-> r.amount, r |-> 0, u |-> r.under]
\* CoinSearchResults before the search: no results, total 0
NoSearch == [results |-> <<>>, total |-> 0]
NoLoc == [existing |-> 0, amount |-> NullDec, held |-> <<>>, log |-> <<>>, count |-> 0,
          found |-> NoSearch]
\* exact fractions n/d in lowest terms, for the Decimal arithmetic of the
\* summary (the 28-digit context and the final float() are not rounded)
RECURSIVE Gcd(_, _)
Gcd(a, b) == IF b = 0 THEN a ELSE Gcd(b, a % b)
Abs(a) == IF a < 0 THEN -a ELSE a
Rat(n, d) ==
    LET g == Gcd(Abs(n), Abs(d))
        sign == IF d < 0 THEN -1 ELSE 1
    IN [n |-> sign * (n \div g), d |-> sign * (d \div g)]
Zero == Rat(0, 1)
RatAdd(x, y) == Rat(x.n * y.d + y.n * x.d, x.d * y.d)
RatMul(x, y) == Rat(x.n * y.n, x.d * y.d)
RatDiv(x, y) == Rat(x.n * y.d, x.d * y.n)

\* `return None`: not enough data for a weighted change
NotEnoughData == [known |-> FALSE, val |-> Zero]
NoSummary == [total |-> Zero, listed |-> <<>>, total_coins |-> 0,
              change |-> NotEnoughData]
NoAnswer == [out |-> "none", status |-> 0, amount |-> NullDec, count |-> 0,
             summary |-> NoSummary, search |-> NoSearch]
NoLedger == [n |-> 0, sum |-> 0, clean |-> TRUE]

\* the coins table as a run may find it: empty after the initial migration,
\* or holding a Coin that an earlier add-coin created and whose entry has
\* been removed since (coins are never deleted)
EmptyCoins == [c \in CoinKeys |-> NoCoin]
KnownCoin ==
    [EmptyCoins EXCEPT !["btc"] =
        [set |-> TRUE, price |-> RealColumn(Dec(1, 0), PriceScale),
         change |-> Num("float", 3)]]

\* the tables, and no request in flight
InitStore ==
    /\ coins \in {EmptyCoins, KnownCoin}
    /\ entries = [i \in EntryIds |-> NoRow]
    /\ next_id = 1
    /\ spc = [t \in StoreTasks |-> "idle"]
    /\ sop = [t \in StoreTasks |-> NoReq]
    /\ stx = [t \in StoreTasks |-> NoTx]
    /\ sloc = [t \in StoreTasks |-> NoLoc]
    /\ sret = [t \in StoreTasks |-> NoAnswer]
    /\ ledger = [c \in CoinIds |-> NoLedger]

\* the row of coins a SELECT of session t returns for id c
VisCoin(t, c) ==
    LET w == stx[t].coins[c] IN
    CASE w.op = "ins" -> [set |-> TRUE, price |-> w.price, change |-> w.change]
      [] w.op = "upd" -> [coins[c] EXCEPT !.price = w.price,
                                          !.change = IF w.chg THEN w.change ELSE @]
      [] OTHER -> coins[c]

\* the row of portfolio_entries a SELECT of session t returns for id i
VisEntry(t, i) ==
    LET w == stx[t].ent IN
    IF w.id = i /\ w.op \in {"ins", "upd"} THEN w.row
    ELSE IF w.id = i /\ w.op = "del" THEN NoRow
    ELSE entries[i]

\* select(PortfolioEntry).where(PortfolioEntry.coin_id == coin_id)
EntriesOf(t, c) == {i \in EntryIds : VisEntry(t, i).coin_id = c}

\* another open transaction has updated or deleted row i: UPDATE and DELETE
\* of that row wait for it to end
RowLocked(t, i) ==
    \E u \in StoreTasks \ {t} :
        stx[u].ent.id = i /\ stx[u].ent.op \in {"upd", "del"}

\* (mutant) a not-found outcome answered as a success
HttpStatusLax(kind, out) ==
    CASE out \in {"entry", "True", "count", "summary", "results", "None", "False"} -> 200
      [] out = "RequestValidationError" -> 422
      [] kind \in {"add", "search"} /\ out = "ValidationError" -> 422
      [] kind = "add" -> 400
      [] OTHER -> 500

\* the endpoints: None and False become HTTPException(404); a body that
\* fails validation is answered 422 before the endpoint runs; add_coin maps
\* ValidationError to 422 and any other exception to 400; an exception
\* that leaves another endpoint is a 500, as is any exception of
\* search_coins but a ValidationError (422)
HttpStatus(kind, out) ==
    CASE out \in {"entry", "True", "count", "summary", "results"} -> 200
      [] out \in {"None", "False"} -> 404
      [] out = "RequestValidationError" -> 422
      [] kind \in {"add", "search"} /\ out = "ValidationError" -> 422
      [] kind = "add" -> 400
      [] OTHER -> 500

\* the service method returns or raises `out`; the endpoint picks the status
Respond(t, out, amount, count) ==
    /\ spc' = [spc EXCEPT ![t] = "respond"]
    /\ sret' = [sret EXCEPT ![t] =
                  [out |-> out, status |-> HttpStatus(sop[t].kind, out),
                   amount |-> amount, count |-> count, summary |-> NoSummary,
                   search |-> NoSearch]]

\* the tasks are interchangeable: a request is served by the first idle one
FreeTask ==
    IF spc["t1"] = "idle" THEN "t1" ELSE "t2"

\* a request arrives: get_db opens its session
StartRequest(t, r, pc) ==
    /\ spc[t] = "idle"
    /\ t = FreeTask
    /\ calls < MaxCalls
    /\ calls' = calls + 1
    /\ sop' = [u \in StoreTasks |->
                 IF u = t
                   THEN [r EXCEPT !.solo = \A v \in StoreTasks : spc[v] = "idle"]
                   ELSE [sop[u] EXCEPT !.solo = FALSE]]
    /\ spc' = [spc EXCEPT ![t] = pc]
    /\ UNCHANGED <<now, lvars, cache, upstream_list, cpc, cop, craw, cret,
                   requests, prev_search,
                   session>>
    /\ UNCHANGED <<coins, entries, next_id, stx, sloc, sret, ledger, hvars>>

\* a step that talks to the database only
DbStep == UNCHANGED <<now, lvars, cvars, hvars>>

\* get_coin_details(c) from call to return, for each answer the upstream can
\* give: the cached record if one is stored and validates, else one token,
\* one request, and a validated record cached for DetailTTL seconds
DetailOutcomes(c) ==
    LET key == DetailKey(c) IN
    IF CacheHit(key) /\ CoinDetailValid(cache[key].val)
      THEN {[http |-> FALSE, cache |-> cache,
             ret |-> Ok(<<CoinDetailOf(cache[key].val, cache[key].val.created_at)>>)]}
      ELSE {[http |-> TRUE, cache |-> cache, ret |-> Raised("ClientError")]} \cup
           {[http |-> TRUE,
             cache |-> FetchedDetail(key, Processed(d)).cache,
             ret |-> FetchedDetail(key, Processed(d)).ret]
            : d \in UpstreamDetails(c)}

\* the effect of that call on the cache and the limiter; a call that needs
\* a token returns once acquire(1) can debit it
GetCoinDetails(o) ==
    /\ cache' = o.cache
    /\ IF o.http
         THEN /\ LockFree
              /\ RefilledTokens >= Need(1)
              /\ tokens' = RefilledTokens - Need(1)
              /\ last_refill' = now
              /\ debited' = debited + Need(1)
              /\ requests' = requests + 1
              /\ session' = GetSession(session)
         ELSE UNCHANGED <<tokens, last_refill, debited, requests, session>>
    /\ UNCHANGED <<now, lock, lpc, req, wake, upstream_list, cpc, cop, craw, cret,
                   calls, prev_search, hvars>>

\* get_coins_list() from call to return, for each answer the upstream can
\* give: the parse of the cached list if one is stored, else one token, one
\* request, the raw list cached for ListTTL seconds and its valid entries
ListOutcomes ==
    IF CacheHit(COINS_LIST_CACHE_KEY)
      THEN {[http |-> FALSE, cache |-> cache,
             ret |-> ParseCached(cache[COINS_LIST_CACHE_KEY].val)]}
      ELSE {[http |-> TRUE, cache |-> cache, ret |-> Raised("ClientError")],
            [http |-> TRUE,
             cache |-> CacheSet(COINS_LIST_CACHE_KEY, upstream_list, ListTTL),
             ret |-> ParseFetched(upstream_list)]}

\* the effect of get_coins_list on the cache and the limiter
GetCoinsList(o) == GetCoinDetails(o)

\* the query strings of GET /coins/search/
SearchQueries == { <<"t">>, <<"x">> }

\* GET /coins/search/?query=q&limit=l
SearchApiCall(t) ==
    \E q \in SearchQueries, l \in Limits :
        StartRequest(t, [NoReq EXCEPT !.kind = "search", !.q = q, !.limit = l],
                     "search")

\* results[:limit] as CoinSearchResponse with in_portfolio=False
Limited(results, limit) ==
    [k \in 1 .. Min(limit, Len(results)) |->
        [id |-> results[k].id, symbol |-> results[k].symbol,
         name |-> results[k].name, in_portfolio |-> FALSE]]

\* search_coins(query), the cut to limit; without results the response is
\* built at once; an exception becomes an HTTPException
SearchFetch(t) ==
    /\ spc[t] = "search"
    /\ \E o \in ListOutcomes :
        /\ GetCoinsList(o)
        /\ IF o.ret.kind = "ok"
             THEN LET all == SearchResult(sop[t].q, o.ret.val)
                      found == [results |-> Limited(all.val, sop[t].limit),
                                total |-> all.count]
                  IN IF found.results = <<>>
                       THEN /\ spc' = [spc EXCEPT ![t] = "respond"]
                            /\ sret' = [sret EXCEPT ![t] =
                                 [NoAnswer EXCEPT
                                    !.out = "results",
                                    !.status = HttpStatus("search", "results"),
                                    !.search = found]]
                            /\ UNCHANGED sloc
                       ELSE /\ spc' = [spc EXCEPT ![t] = "mark"]
                            /\ sloc' = [sloc EXCEPT ![t] = [NoLoc EXCEPT !.found = found]]
                            /\ UNCHANGED sret
             ELSE /\ Respond(t, o.ret.kind, NullDec, 0)
                  /\ UNCHANGED sloc
    /\ UNCHANGED <<coins, entries, next_id, sop, stx, ledger>>

\* (mutant) the results left as they were built, in_portfolio=False
MarkedNot(results, held) == results

\* `coin.in_portfolio = coin.id in portfolio_coin_ids`
Marked(results, held) ==
    [k \in 1 .. Len(results) |->
        [results[k] EXCEPT !.in_portfolio = results[k].id \in held]]

\* select(PortfolioEntry.coin_id), the results marked, the response
SearchMark(t) ==
    /\ spc[t] = "mark"
    /\ LET held == {VisEntry(t, i).coin_id : i \in {j \in EntryIds : VisEntry(t, j) # NoRow}}
       IN /\ spc' = [spc EXCEPT ![t] = "respond"]
          /\ sret' = [sret EXCEPT ![t] =
               [NoAnswer EXCEPT
                  !.out = "results",
                  !.status = HttpStatus("search", "results"),
                  !.search = [sloc[t].found EXCEPT
                                !.results = Marked(sloc[t].found.results, held)]]]
    /\ DbStep
    /\ UNCHANGED <<coins, entries, next_id, sop, stx, sloc, ledger>>

\* POST /portfolio/ {coin_id, amount}, for the coin ids and amounts given
AddCall(t, ids, amounts) ==
    \E c \in ids, a \in amounts :
        StartRequest(t, [NoReq EXCEPT !.kind = "add", !.coin = c, !.amount = a],
                     "get_coin")

\* (mutant) step 1 fetching the details whether the Coin is stored or not
AddGetCoinAlwaysFetch(t) ==
    /\ spc[t] = "get_coin"
    /\ spc' = [spc EXCEPT ![t] = "fetch"]
    /\ DbStep
    /\ UNCHANGED <<coins, entries, next_id, sop, stx, sloc, sret, ledger>>

\* step 1: PortfolioRepository.get_coin
AddGetCoin(t) ==
    /\ spc[t] = "get_coin"
    /\ spc' = [spc EXCEPT ![t] =
                 IF VisCoin(t, sop[t].coin).set THEN "get_entry" ELSE "fetch"]
    /\ DbStep
    /\ UNCHANGED <<coins, entries, next_id, sop, stx, sloc, sret, ledger>>

\* (mutant) step 1 swallowing the exception of the fetch and going on to
\* step 2
AddFetchCarryOn(t) ==
    /\ spc[t] = "fetch"
    /\ \E o \in DetailOutcomes(sop[t].coin) :
        /\ GetCoinDetails(o)
        /\ IF o.ret.kind = "ok"
             THEN LET m == o.ret.val[1] IN
                  /\ stx' = [stx EXCEPT ![t].coins[m.id] =
                               [op |-> "add", price |-> ToDec(m.price),
                                change |-> m.change, chg |-> TRUE]]
                  /\ spc' = [spc EXCEPT ![t] = "flush_coin"]
                  /\ UNCHANGED sret
             ELSE /\ spc' = [spc EXCEPT ![t] = "get_entry"]
                  /\ UNCHANGED <<stx, sret>>
    /\ UNCHANGED <<coins, entries, next_id, sop, sloc, ledger>>

\* step 1, coin absent: get_coin_details, then create_coin(model_dump())
\* puts the new Coin in the session; an exception leaves add_coin_to_portfolio
AddFetch(t) ==
    /\ spc[t] = "fetch"
    /\ \E o \in DetailOutcomes(sop[t].coin) :
        /\ GetCoinDetails(o)
        /\ IF o.ret.kind = "ok"
             THEN LET m == o.ret.val[1] IN
                  /\ stx' = [stx EXCEPT ![t].coins[m.id] =
                               [op |-> "add", price |-> ToDec(m.price),
                                change |-> m.change, chg |-> TRUE]]
                  /\ spc' = [spc EXCEPT ![t] = "flush_coin"]
                  /\ UNCHANGED sret
             ELSE /\ Respond(t, o.ret.kind, NullDec, 0)
                  /\ UNCHANGED stx
    /\ UNCHANGED <<coins, entries, next_id, sop, sloc, ledger>>

\* step 1 ends: the savepoint is released and the INSERT into coins is
\* flushed.  It waits for an open transaction that inserted the same id,
\* and fails on a committed row with that id or a price out of range.
AddFlushCoin(t) ==
    /\ spc[t] = "flush_coin"
    /\ LET c == CHOOSE k \in CoinKeys : stx[t].coins[k].op = "add"
           w == stx[t].coins[c]
       IN /\ ~\E u \in StoreTasks \ {t} : stx[u].coins[c].op = "ins"
          /\ IF ~FitsReal(w.price)
               THEN /\ Respond(t, "DBAPIError", NullDec, 0)
                    /\ stx' = [stx EXCEPT ![t] = NoTx]
               ELSE IF coins[c].set
               THEN /\ Respond(t, "IntegrityError", NullDec, 0)
                    /\ stx' = [stx EXCEPT ![t] = NoTx]
               ELSE /\ stx' = [stx EXCEPT ![t].coins[c] =
                                 [w EXCEPT !.op = "ins",
                                           !.price = RealColumn(w.price, PriceScale)]]
                    /\ spc' = [spc EXCEPT ![t] = "get_entry"]
                    /\ UNCHANGED sret
    /\ DbStep
    /\ UNCHANGED <<coins, entries, next_id, sop, sloc, ledger>>

\* step 2: get_entry_by_coin_id; scalar_one_or_none raises
\* MultipleResultsFound when several rows match
AddGetEntry(t) ==
    /\ spc[t] = "get_entry"
    /\ LET rows == EntriesOf(t, sop[t].coin) IN
         IF Cardinality(rows) > 1
           THEN /\ Respond(t, "MultipleResultsFound", NullDec, 0)
                /\ UNCHANGED sloc
           ELSE /\ spc' = [spc EXCEPT ![t] = "write"]
                /\ sloc' = [sloc EXCEPT ![t] =
                              IF rows = {} THEN NoLoc
                              ELSE LET i == CHOOSE k \in rows : TRUE
                                   IN [NoLoc EXCEPT !.existing = i,
                                                    !.amount = VisEntry(t, i).amount]]
                /\ UNCHANGED sret
    /\ DbStep
    /\ UNCHANGED <<coins, entries, next_id, sop, stx, ledger>>

\* (mutant) an entry INSERT that no foreign key checks
AddWriteNoForeignKey(t) ==
    /\ spc[t] = "write"
    /\ LET i == sloc[t].existing
           c == sop[t].coin
           total == DecAdd(sloc[t].amount, ReqAmount(sop[t]))
       IN IF i # 0
            THEN /\ ~RowLocked(t, i)
                 /\ IF entries[i] = NoRow
                      THEN /\ Respond(t, "StaleDataError", NullDec, 0)
                           /\ UNCHANGED <<stx, sloc>>
                      ELSE /\ stx' = [stx EXCEPT ![t].ent =
                                        [op |-> "upd", id |-> i,
                                         row |-> [coin_id |-> c,
                                                  amount |-> RealColumn(total, AmountScale)]]]
                           /\ sloc' = [sloc EXCEPT ![t].amount = total]
                           /\ spc' = [spc EXCEPT ![t] = "refreshed"]
                           /\ UNCHANGED sret
                 /\ UNCHANGED next_id
            ELSE /\ next_id' = next_id + 1
                 /\ stx' = [stx EXCEPT ![t].ent =
                              [op |-> "ins", id |-> next_id,
                               row |-> [coin_id |-> c,
                                        amount |-> RealColumn(ReqAmount(sop[t]),
                                                              AmountScale)]]]
                 /\ sloc' = [sloc EXCEPT ![t].existing = next_id,
                                         ![t].amount = ReqAmount(sop[t])]
                 /\ spc' = [spc EXCEPT ![t] = "refreshed"]
                 /\ UNCHANGED sret
    /\ DbStep
    /\ UNCHANGED <<coins, entries, sop, ledger>>

\* step 2 ends: update_entry_amount(existing.amount + amount) or
\* create_portfolio_entry, flushed when the savepoint is released.  The
\* UPDATE waits for a transaction holding the row and raises StaleDataError
\* when the row is gone; the INSERT draws the next id and fails without its
\* Coin.
AddWrite(t) ==
    /\ spc[t] = "write"
    /\ LET i == sloc[t].existing
           c == sop[t].coin
           total == DecAdd(sloc[t].amount, ReqAmount(sop[t]))
       IN IF i # 0
            THEN /\ ~RowLocked(t, i)
                 /\ IF entries[i] = NoRow
                      THEN /\ Respond(t, "StaleDataError", NullDec, 0)
                           /\ UNCHANGED <<stx, sloc>>
                      ELSE /\ stx' = [stx EXCEPT ![t].ent =
                                        [op |-> "upd", id |-> i,
                                         row |-> [coin_id |-> c,
                                                  amount |-> RealColumn(total, AmountScale)]]]
                           /\ sloc' = [sloc EXCEPT ![t].amount = total]
                           /\ spc' = [spc EXCEPT ![t] = "refreshed"]
                           /\ UNCHANGED sret
                 /\ UNCHANGED next_id
            ELSE /\ next_id' = next_id + 1
                 /\ IF ~VisCoin(t, c).set
                      THEN /\ Respond(t, "IntegrityError", NullDec, 0)
                           /\ UNCHANGED <<stx, sloc>>
                      ELSE /\ stx' = [stx EXCEPT ![t].ent =
                                        [op |-> "ins", id |-> next_id,
                                         row |-> [coin_id |-> c,
                                                  amount |-> RealColumn(ReqAmount(sop[t]),
                                                                        AmountScale)]]]
                           /\ sloc' = [sloc EXCEPT ![t].existing = next_id,
                                                   ![t].amount = ReqAmount(sop[t])]
                           /\ spc' = [spc EXCEPT ![t] = "refreshed"]
                           /\ UNCHANGED sret
    /\ DbStep
    /\ UNCHANGED <<coins, entries, sop, ledger>>

\* get_refreshed_entry, and the endpoint validates what it returns: the
\* session's own entry object, or None, which fails validation
AddRefreshed(t) ==
    /\ spc[t] = "refreshed"
    /\ LET rows == EntriesOf(t, sop[t].coin) IN
         IF Cardinality(rows) > 1 THEN Respond(t, "MultipleResultsFound", NullDec, 0)
         ELSE IF rows = {} THEN Respond(t, "ValidationError", NullDec, 0)
         ELSE Respond(t, "entry", sloc[t].amount, 0)
    /\ DbStep
    /\ UNCHANGED <<coins, entries, next_id, sop, stx, sloc, ledger>>

\* PUT /portfolio/{entry_id} {amount}
UpdateCall(t) ==
    \E i \in EntryIds, a \in AmountTenths :
        StartRequest(t, [NoReq EXCEPT !.kind = "update", !.id = i, !.amount = a], "find")

\* DELETE /portfolio/{entry_id}
RemoveCall(t) ==
    \E i \in EntryIds :
        StartRequest(t, [NoReq EXCEPT !.kind = "remove", !.id = i], "find")

\* get_entry_by_id; `if not entry: return None`
UpdateFind(t) ==
    /\ spc[t] = "find"
    /\ sop[t].kind = "update"
    /\ IF VisEntry(t, sop[t].id) = NoRow
         THEN /\ Respond(t, "None", NullDec, 0)
              /\ UNCHANGED sloc
         ELSE /\ spc' = [spc EXCEPT ![t] = "write_found"]
              /\ sloc' = [sloc EXCEPT ![t] =
                            [NoLoc EXCEPT !.existing = sop[t].id,
                                          !.amount = VisEntry(t, sop[t].id).amount]]
              /\ UNCHANGED sret
    /\ DbStep
    /\ UNCHANGED <<coins, entries, next_id, sop, stx, ledger>>

\* get_entry_by_id; `if not entry: return False`
RemoveFind(t) ==
    /\ spc[t] = "find"
    /\ sop[t].kind = "remove"
    /\ IF VisEntry(t, sop[t].id) = NoRow
         THEN /\ Respond(t, "False", NullDec, 0)
              /\ UNCHANGED sloc
         ELSE /\ spc' = [spc EXCEPT ![t] = "write_found"]
              /\ sloc' = [sloc EXCEPT ![t] =
                            [NoLoc EXCEPT !.existing = sop[t].id,
                                          !.amount = VisEntry(t, sop[t].id).amount]]
              /\ UNCHANGED sret
    /\ DbStep
    /\ UNCHANGED <<coins, entries, next_id, sop, stx, ledger>>

\* update_entry_amount(entry, amount), the flush, get_refreshed_entry_by_id
UpdateWrite(t) ==
    /\ spc[t] = "write_found"
    /\ sop[t].kind = "update"
    /\ LET i == sop[t].id IN
         /\ ~RowLocked(t, i)
         /\ IF entries[i] = NoRow
              THEN /\ Respond(t, "StaleDataError", NullDec, 0)
                   /\ UNCHANGED stx
              ELSE /\ stx' = [stx EXCEPT ![t].ent =
                                [op |-> "upd", id |-> i,
                                 row |-> [entries[i] EXCEPT
                                            !.amount = RealColumn(ReqAmount(sop[t]),
                                                                  AmountScale)]]]
                   /\ Respond(t, "entry", ReqAmount(sop[t]), 0)
    /\ DbStep
    /\ UNCHANGED <<coins, entries, next_id, sop, sloc, ledger>>

\* (mutant) a remove that answers True and leaves the row as it is
RemoveWriteKeeping(t) ==
    /\ spc[t] = "write_found"
    /\ sop[t].kind = "remove"
    /\ ~RowLocked(t, sop[t].id)
    /\ stx' = [stx EXCEPT ![t].ent =
                 [op |-> "upd", id |-> sop[t].id, row |-> entries[sop[t].id]]]
    /\ Respond(t, "True", NullDec, 0)
    /\ DbStep
    /\ UNCHANGED <<coins, entries, next_id, sop, sloc, ledger>>

\* delete_entry(entry) and the flush: a DELETE that matches no row is not
\* an error; return True
RemoveWrite(t) ==
    /\ spc[t] = "write_found"
    /\ sop[t].kind = "remove"
    /\ ~RowLocked(t, sop[t].id)
    /\ stx' = [stx EXCEPT ![t].ent = [op |-> "del", id |-> sop[t].id, row |-> NoRow]]
    /\ Respond(t, "True", NullDec, 0)
    /\ DbStep
    /\ UNCHANGED <<coins, entries, next_id, sop, sloc, ledger>>

RECURSIVE Ascending(_)
Ascending(S) ==
    IF S = {} THEN <<>>
    ELSE LET m == CHOOSE k \in S : \A j \in S : k <= j
         IN <<m>> \o Ascending(S \ {m})

\* POST /portfolio/refresh-prices
RefreshCall(t) == StartRequest(t, [NoReq EXCEPT !.kind = "refresh"], "read_held")

\* (mutant) an initial read of every stored coin, held or not
RefreshReadAllCoins(t) ==
    /\ spc[t] = "read_held"
    /\ LET ids == Ascending({i \in 1 .. 2 : VisCoin(t, IF i = 1 THEN "btc" ELSE "eth").set}) IN
         sloc' = [sloc EXCEPT ![t] =
                    [NoLoc EXCEPT !.held = [k \in 1 .. Len(ids) |->
                                              IF ids[k] = 1 THEN "btc" ELSE "eth"]]]
    /\ spc' = [spc EXCEPT ![t] = "loop"]
    /\ DbStep
    /\ UNCHANGED <<coins, entries, next_id, sop, stx, sret, ledger>>

\* get_portfolio_coins: select(Coin).join(Coin.portfolio_entries), one Coin
\* for each entry
RefreshRead(t) ==
    /\ spc[t] = "read_held"
    /\ LET ids == Ascending({i \in EntryIds : VisEntry(t, i) # NoRow}) IN
         sloc' = [sloc EXCEPT ![t] =
                    [NoLoc EXCEPT !.held = [k \in 1 .. Len(ids) |-> VisEntry(t, ids[k]).coin_id]]]
    /\ spc' = [spc EXCEPT ![t] = "loop"]
    /\ DbStep
    /\ UNCHANGED <<coins, entries, next_id, sop, stx, sret, ledger>>

\* (mutant) an except clause that lets everything but a ClientError pass
CaughtOnlyClientError(exc) == exc = "ClientError"

\* `except Exception` around one coin of the loop
Caught(exc) == exc \in {"ClientError", "ValidationError", "DBAPIError"}

\* one round of the loop: get_coin_details; with a price, update_coin_price
\* and updated_count += 1, then the UPDATE is flushed as the savepoint is
\* released; an exception in the round is logged and the loop goes on
RefreshCoin(t) ==
    /\ spc[t] = "loop"
    /\ Len(sloc[t].log) < Len(sloc[t].held)
    /\ LET c == sloc[t].held[Len(sloc[t].log) + 1] IN
       \E o \in DetailOutcomes(c) :
        /\ GetCoinDetails(o)
        /\ LET priced == o.ret.kind = "ok" /\ o.ret.val[1].price.ty # "null"
               price == IF priced THEN ToDec(o.ret.val[1].price) ELSE NullDec
               change == IF priced THEN o.ret.val[1].change ELSE NullNum
               exc == IF o.ret.kind # "ok" THEN o.ret.kind
                      ELSE IF priced /\ ~FitsReal(price) THEN "DBAPIError"
                      ELSE "none"
               old == stx[t].coins[c]
           IN /\ sloc' = [sloc EXCEPT
                            ![t].log = Append(@, [coin |-> c, fetched |-> o.ret.kind,
                                                  price |-> price, change |-> change,
                                                  raised |-> exc]),
                            ![t].count = IF priced THEN @ + 1 ELSE @]
              /\ stx' = IF priced /\ exc = "none"
                          THEN [stx EXCEPT ![t].coins[c] =
                                  [op |-> "upd",
                                   price |-> RealColumn(price, PriceScale),
                                   change |-> IF change.ty # "null" THEN change
                                              ELSE old.change,
                                   chg |-> old.chg \/ change.ty # "null"]]
                          ELSE stx
              /\ IF exc = "none" \/ Caught(exc)
                   THEN UNCHANGED <<spc, sret>>
                   ELSE Respond(t, exc, NullDec, 0)
    /\ UNCHANGED <<coins, entries, next_id, sop, ledger>>

\* the loop is over: return updated_count
RefreshDone(t) ==
    /\ spc[t] = "loop"
    /\ Len(sloc[t].log) = Len(sloc[t].held)
    /\ Respond(t, "count", NullDec, sloc[t].count)
    /\ DbStep
    /\ UNCHANGED <<coins, entries, next_id, sop, stx, sloc, ledger>>

\* ------------------------------------------------------- portfolio summary
\* a Decimal of whole tenths as a fraction (the rows a summary is asked
\* for in SpecSummary hold whole tenths)
DecToRat(x) == Rat(x.t, 10)
\* a float of whole tenths, as Decimal(change) gives it
NumToRat(x) == Rat(x.v, 10)

\* Python truth of an Optional[Decimal]: neither None nor zero
Truthy(x) == x # NullDec /\ (x.t # 0 \/ x.r # 0 \/ x.u # 0)

\* Field(gt=0) and amount_must_be_positive
Positive(x) == x.t > 0 \/ (x.t = 0 /\ (x.r > 0 \/ x.u > 0))

\* request amounts: -0.2, 0, 10^-46 and 0.1
RequestAmounts ==
    { [amount |-> -2, under |-> 0], [amount |-> 0, under |-> 0],
      [amount |-> 0, under |-> 1], [amount |-> 1, under |-> 0] }

\* POST /portfolio/ {coin_id, amount}, with any amount in the body
AddAmountCall(t) ==
    \E c \in OneCoin, a \in RequestAmounts :
        StartRequest(t, [NoReq EXCEPT !.kind = "add", !.coin = c,
                                      !.amount = a.amount, !.under = a.under],
                     "validate")

\* PUT /portfolio/{entry_id} {amount}, with any amount in the body
UpdateAmountCall(t) ==
    \E i \in EntryIds, a \in RequestAmounts :
        StartRequest(t, [NoReq EXCEPT !.kind = "update", !.id = i,
                                      !.amount = a.amount, !.under = a.under],
                     "validate")

\* the body is validated as PortfolioEntryCreate or PortfolioEntryUpdate
\* before the endpoint is called: an amount that is not above zero is a
\* RequestValidationError
ValidateBody(t) ==
    /\ spc[t] = "validate"
    /\ IF Positive(ReqAmount(sop[t]))
         THEN /\ spc' = [spc EXCEPT ![t] =
                          IF sop[t].kind = "add" THEN "get_coin" ELSE "find"]
              /\ UNCHANGED sret
         ELSE Respond(t, "RequestValidationError", NullDec, 0)
    /\ DbStep
    /\ UNCHANGED <<coins, entries, next_id, sop, stx, sloc, ledger>>

\* GET /portfolio/summary
SummaryCall(t) == StartRequest(t, [NoReq EXCEPT !.kind = "summary"], "read_all")

\* get_all_entries: every entry with its coin loaded, in order of creation
ListedEntries(t) ==
    LET ids == Ascending({i \in EntryIds : VisEntry(t, i) # NoRow})
    IN [k \in 1 .. Len(ids) |->
          [id |-> ids[k], coin_id |-> VisEntry(t, ids[k]).coin_id,
           amount |-> VisEntry(t, ids[k]).amount,
           price |-> VisCoin(t, VisEntry(t, ids[k]).coin_id).price,
           change |-> VisCoin(t, VisEntry(t, ids[k]).coin_id).change]]

\* the loop of get_portfolio_summary over the first k entries:
\* `if entry.coin and entry.coin.current_price: total_value += amount * price`
RECURSIVE TotalValue(_, _)
TotalValue(listed, k) ==
    IF k = 0 THEN Zero
    ELSE LET e == listed[k] IN
         IF Truthy(e.price)
           THEN RatAdd(TotalValue(listed, k - 1),
                       RatMul(DecToRat(e.amount), DecToRat(e.price)))
           ELSE TotalValue(listed, k - 1)

\* PortfolioEntryResponse.current_value_usd, with `value or Decimal(0)`
CurrentValue(e) ==
    IF ~Truthy(e.amount) \/ ~Truthy(e.price) THEN Zero
    ELSE RatMul(DecToRat(e.amount), DecToRat(e.price))

\* the loop of total_24h_change_percentage over the first k entries:
\* weighted_changes and total_with_changes
RECURSIVE Weighted(_, _, _)
Weighted(listed, total, k) ==
    IF k = 0 THEN [changes |-> Zero, with_changes |-> Zero]
    ELSE LET e == listed[k]
             value == CurrentValue(e)
             sofar == Weighted(listed, total, k - 1)
         IN IF value.n > 0 /\ e.change.ty # "null"
              THEN [changes |-> RatAdd(sofar.changes,
                                       RatMul(NumToRat(e.change), RatDiv(value, total))),
                    with_changes |-> RatAdd(sofar.with_changes, value)]
              ELSE sofar

\* (mutant) the weighted sum returned without its adjustment factor
AdjustedNot(changes, total, with_changes) == changes

\* weighted_changes * (total_value_usd / total_with_changes)
Adjusted(changes, total, with_changes) ==
    RatMul(changes, RatDiv(total, with_changes))

\* (mutant) a missing change reported as zero
NoChangeAsZero == [known |-> TRUE, val |-> Zero]

\* what total_24h_change_percentage answers without enough data
NoChange == NotEnoughData

\* PortfolioSummary.total_24h_change_percentage
TotalChange(total, listed) ==
    IF listed = <<>> \/ total.n <= 0 THEN NoChange
    ELSE LET w == Weighted(listed, total, Len(listed)) IN
         IF w.with_changes.n <= 0 THEN NoChange
         ELSE [known |-> TRUE, val |-> Adjusted(w.changes, total, w.with_changes)]

\* get_portfolio_summary: the entries are read, summed and validated as
\* PortfolioEntryResponse (amount > 0), and the summary fields derived
SummaryRead(t) ==
    /\ spc[t] = "read_all"
    /\ LET listed == ListedEntries(t)
           total == TotalValue(listed, Len(listed))
       IN IF \E k \in 1 .. Len(listed) : ~Positive(listed[k].amount)
            THEN Respond(t, "ValidationError", NullDec, 0)
            ELSE /\ spc' = [spc EXCEPT ![t] = "respond"]
                 /\ sret' = [sret EXCEPT ![t] =
                      [NoAnswer EXCEPT
                         !.out = "summary",
                         !.status = HttpStatus("summary", "summary"),
                         !.summary = [total |-> total, listed |-> listed,
                                      total_coins |-> Len(listed),
                                      change |-> TotalChange(total, listed)]]]
    /\ DbStep
    /\ UNCHANGED <<coins, entries, next_id, sop, stx, sloc, ledger>>

\* get_db after the endpoint: commit, or rollback when an exception (an
\* HTTPException too) comes out of the endpoint; the request is over
Commit(t) ==
    /\ spc[t] = "respond"
    /\ LET ok == sret[t].status = 200
           w == stx[t].ent
           c == sop[t].coin
       IN /\ entries' = IF ok /\ w.op # "none"
                          THEN [entries EXCEPT ![w.id] = w.row]
                          ELSE entries
          /\ coins' = IF ok THEN [k \in CoinKeys |-> VisCoin(t, k)] ELSE coins
          /\ ledger' =
               IF ok /\ sop[t].kind = "add"
                 THEN [ledger EXCEPT ![c] = [n |-> @.n + 1, sum |-> @.sum + sop[t].amount,
                                             clean |-> @.clean /\ sop[t].solo]]
               ELSE IF ok /\ sop[t].kind \in {"update", "remove"}
                       /\ entries[w.id].coin_id \in CoinIds
                 THEN [ledger EXCEPT ![entries[w.id].coin_id].clean = FALSE]
               ELSE ledger
    /\ stx' = [stx EXCEPT ![t] = NoTx]
    /\ spc' = [spc EXCEPT ![t] = "idle"]
    /\ sop' = [sop EXCEPT ![t] = NoReq]
    /\ sloc' = [sloc EXCEPT ![t] = NoLoc]
    /\ sret' = [sret EXCEPT ![t] = NoAnswer]
    /\ DbStep
    /\ UNCHANGED next_id

\* --------------------------------------------------------- specifications
InitL ==
    /\ now = 0
    /\ InitLimiter
    /\ InitClient
    /\ InitStore
    /\ InitHistory
    /\ coins = EmptyCoins
    /\ upstream_list = <<>>

\* the first acquire() to pass the capacity check marks the start
NoteStart == started' = IF started = NotStarted THEN now ELSE started

NextL ==
    \/ Tick
    \/ /\ UNCHANGED <<cvars, svars, stored>>
       /\ \/ \E p \in Callers, n \in ReqSizes : AcquireReject(p, n) /\ UNCHANGED started
          \/ \E p \in Callers, n \in ReqSizes : AcquireEnter(p, n) /\ NoteStart
          \/ \E p \in Callers : LockGrant(p) /\ UNCHANGED started
          \/ \E p \in Callers : CheckTokens(p) /\ UNCHANGED started
          \/ \E p \in Callers : WakeRefill(p) /\ UNCHANGED started
          \/ \E p \in Callers : WakeDebit(p) /\ UNCHANGED started
          \/ \E p \in Callers : AcquireReturn(p) /\ UNCHANGED started

SpecLimiter == InitL /\ [][NextL]_vars

\* the callers and the calls of the runs in which every call must return:
\* calls within the capacity, entered before MaxTime
FairCallers == {"t1", "t2"}
FairSizes == 1 .. MaxTokens

\* the clock does not stop at MaxTime while a caller is asleep
TickForSleeper ==
    /\ now >= MaxTime
    /\ \E p \in FairCallers : lpc[p] = "sleeping" /\ now < wake[p]
    /\ now' = now + 1
    /\ UNCHANGED <<lvars, cvars, svars, hvars>>

FairEnter(p, n) == now < MaxTime /\ AcquireEnter(p, n) /\ NoteStart

NextFair ==
    \/ Tick
    \/ TickForSleeper
    \/ /\ UNCHANGED <<cvars, svars, stored>>
       /\ \/ \E p \in FairCallers, n \in FairSizes : FairEnter(p, n)
          \/ \E p \in FairCallers : LockGrant(p) /\ UNCHANGED started
          \/ \E p \in FairCallers : CheckTokens(p) /\ UNCHANGED started
          \/ \E p \in FairCallers : WakeRefill(p) /\ UNCHANGED started
          \/ \E p \in FairCallers : WakeDebit(p) /\ UNCHANGED started
          \/ \E p \in FairCallers : AcquireReturn(p) /\ UNCHANGED started

\* time advances; the event loop runs every task that is ready; asyncio.Lock
\* wakes its waiters in turn, so a waiter is not passed over for ever
Fairness ==
    /\ WF_vars(Tick \/ TickForSleeper)
    /\ \A p \in FairCallers :
        /\ SF_vars(LockGrant(p) /\ UNCHANGED <<cvars, svars, hvars>>)
        /\ WF_vars(CheckTokens(p) /\ UNCHANGED <<cvars, svars, hvars>>)
        /\ WF_vars(WakeRefill(p) /\ UNCHANGED <<cvars, svars, hvars>>)
        /\ WF_vars(WakeDebit(p) /\ UNCHANGED <<cvars, svars, hvars>>)

SpecLimiterFair == InitL /\ [][NextFair]_vars /\ Fairness

\* the integers acquire() may be called with that pass its capacity check,
\* from -1 up to the capacity
AnySizes == (0 - 1) .. MaxTokens

\* acquire(n) is called with any such integer, MaxCalls times at most
AnyEnter(p, n) ==
    /\ calls < MaxCalls
    /\ AcquireEnter(p, n)
    /\ calls' = calls + 1
    /\ UNCHANGED <<cache, upstream_list, cpc, cop, craw, cret, requests, prev_search,
                   session, svars, hvars>>

NextAny ==
    \/ Tick
    \/ \E p \in FairCallers, n \in AnySizes : AnyEnter(p, n)
    \/ /\ UNCHANGED <<cvars, svars, hvars>>
       /\ \/ \E p \in FairCallers : LockGrant(p)
          \/ \E p \in FairCallers : CheckTokens(p)
          \/ \E p \in FairCallers : WakeRefill(p)
          \/ \E p \in FairCallers : WakeDebit(p)
          \/ \E p \in FairCallers : AcquireReturn(p)

SpecLimiterAny == InitL /\ [][NextAny]_vars

InitC ==
    /\ now = 0
    /\ InitLimiter
    /\ InitClient
    /\ InitStore
    /\ InitHistory
    /\ coins = EmptyCoins

\* the steps of a client call between its start and its HTTP request
ClientStep(t) ==
    \/ ClientAcquire(t)
    \/ ClientLimiterStep(t)
    \/ ClientAcquired(t)
    \/ HttpError(t)
    \/ ClientReturn(t)

\* get_coins_list and search_coins, called by concurrent tasks
NextList ==
    \/ Tick
    \/ /\ UNCHANGED <<svars, hvars>>
       /\ \/ \E t \in ClientTasks : ListCall(t)
          \/ \E t \in ClientTasks : SearchCall(t)
          \/ \E t \in ClientTasks : ListCacheGet(t)
          \/ \E t \in ClientTasks : HttpList(t)
          \/ \E t \in ClientTasks : ClientStep(t)

SpecList == InitC /\ [][NextList]_vars

\* GET /coins/, served by concurrent tasks
NextCoins ==
    \/ Tick
    \/ /\ UNCHANGED <<svars, hvars>>
       /\ \/ \E t \in ClientTasks : CoinsCall(t)
          \/ \E t \in ClientTasks : ListCacheGet(t)
          \/ \E t \in ClientTasks : HttpList(t)
          \/ \E t \in ClientTasks : ClientStep(t)

SpecCoins == InitC /\ [][NextCoins]_vars

\* the list the upstream service answers changes
UpstreamChange ==
    /\ upstream_list' \in UpstreamLists \ {upstream_list}
    /\ UNCHANGED <<now, lvars, cache, cpc, cop, craw, cret, calls, requests,
                   prev_search,
                   session>>

\* get_coins_list, forced (as the startup prefetch) or not, while the
\* upstream list changes
NextForce ==
    \/ Tick
    \/ /\ UNCHANGED <<svars, hvars>>
       /\ \/ \E t \in ClientTasks : ListCall(t)
          \/ \E t \in ClientTasks : ListCacheGet(t)
          \/ \E t \in ClientTasks : HttpList(t)
          \/ \E t \in ClientTasks : ClientStep(t)
          \/ UpstreamChange

SpecForce == InitC /\ [][NextForce]_vars

InitDetail ==
    /\ InitC
    /\ upstream_list = <<>>

\* get_coin_details, called by concurrent tasks
NextDetail ==
    \/ Tick
    \/ /\ UNCHANGED <<svars, hvars>>
       /\ \/ \E t \in ClientTasks : DetailCall(t)
          \/ \E t \in ClientTasks : DetailCacheGet(t)
          \/ \E t \in ClientTasks : HttpDetail(t)
          \/ \E t \in ClientTasks : ClientStep(t)
          \/ \E c \in CoinIds : ForeignCacheWrite(c)

SpecDetail == InitDetail /\ [][NextDetail]_vars

\* get_coins_list and get_coin_details over one cache
NextClient ==
    \/ Tick
    \/ /\ UNCHANGED <<svars, hvars>>
       /\ \/ \E t \in ClientTasks : ListCall(t)
          \/ \E t \in ClientTasks : ListCacheGet(t)
          \/ \E t \in ClientTasks : HttpList(t)
          \/ \E t \in ClientTasks : DetailCallFor(t, {"btc"})
          \/ \E t \in ClientTasks : DetailCacheGet(t)
          \/ \E t \in ClientTasks : HttpDetail(t)
          \/ \E t \in ClientTasks : ClientStep(t)

InitClientOneList ==
    /\ InitC
    /\ upstream_list = <<BtcItem, BadItem, EthItem>>

SpecClient == InitClientOneList /\ [][NextClient]_vars

\* close(), as the lifespan calls it at shutdown: an open session is closed
Close ==
    /\ session' = IF session.state = "open"
                    THEN [session EXCEPT !.state = "closed", !.shut = @ + 1]
                    ELSE session
    /\ UNCHANGED <<now, lvars, cache, upstream_list, cpc, cop, craw, cret, calls,
                   requests, prev_search>>

\* the request handlers that call the client at the same time
SharedTasks == {"t1", "t2"}

\* get_coins_list called by two tasks over the one limiter
NextShared ==
    \/ Tick
    \/ /\ UNCHANGED <<svars, hvars>>
       /\ \/ \E t \in SharedTasks : ListCall(t)
          \/ \E t \in SharedTasks : ListCacheGet(t)
          \/ \E t \in SharedTasks : HttpList(t)
          \/ \E t \in SharedTasks : ClientStep(t)

SpecShared == InitClientOneList /\ [][NextShared]_vars

\* get_coins_list called by two tasks, and close()
NextSession ==
    \/ Tick
    \/ /\ UNCHANGED <<svars, hvars>>
       /\ \/ \E t \in SharedTasks : ListCall(t)
          \/ \E t \in SharedTasks : ListCacheGet(t)
          \/ \E t \in SharedTasks : HttpList(t)
          \/ \E t \in SharedTasks : ClientStep(t)
          \/ Close

SpecSession == InitClientOneList /\ [][NextSession]_vars

\* RedisCache.set and RedisCache.get called directly, as time passes
NextCache ==
    \/ Tick
    \/ \E t \in ClientTasks, k \in DirectKeys, v \in DirectValues, ttl \in DirectTtls :
          CacheSetCall(t, k, v, ttl)
    \/ \E t \in ClientTasks, k \in DirectKeys : CacheGetCall(t, k)
    \/ \E t \in ClientTasks : ClientReturn(t) /\ UNCHANGED <<svars, hvars>>

SpecCache == InitDetail /\ [][NextCache]_vars

\* no request is in flight
Quiet == \A t \in StoreTasks : spc[t] = "idle"

InitS ==
    /\ now = 0
    /\ InitLimiter
    /\ InitClient
    /\ InitStore
    /\ InitHistory
    /\ upstream_list = <<>>

\* time is advanced between requests, by the lifetime of a detail record
Later == Quiet /\ Elapse(DetailTTL)

\* add-coin, update-entry and remove-entry, served concurrently
NextStore ==
    \/ Later
    \/ \E t \in StoreTasks : AddCall(t, OneCoin, AmountTenths)
    \/ \E t \in StoreTasks : AddGetCoin(t)
    \/ \E t \in StoreTasks : AddFetch(t)
    \/ \E t \in StoreTasks : AddFlushCoin(t)
    \/ \E t \in StoreTasks : AddGetEntry(t)
    \/ \E t \in StoreTasks : AddWrite(t)
    \/ \E t \in StoreTasks : AddRefreshed(t)
    \/ \E t \in StoreTasks : UpdateCall(t)
    \/ \E t \in StoreTasks : UpdateFind(t)
    \/ \E t \in StoreTasks : UpdateWrite(t)
    \/ \E t \in StoreTasks : RemoveCall(t)
    \/ \E t \in StoreTasks : RemoveFind(t)
    \/ \E t \in StoreTasks : RemoveWrite(t)
    \/ \E t \in StoreTasks : Commit(t)

SpecStore == InitS /\ [][NextStore]_vars

\* add-coin and refresh-all-prices, served concurrently
NextRefresh ==
    \/ Later
    \/ \E t \in StoreTasks : AddCall(t, CoinIds, OneAmount)
    \/ \E t \in StoreTasks : AddGetCoin(t)
    \/ \E t \in StoreTasks : AddFetch(t)
    \/ \E t \in StoreTasks : AddFlushCoin(t)
    \/ \E t \in StoreTasks : AddGetEntry(t)
    \/ \E t \in StoreTasks : AddWrite(t)
    \/ \E t \in StoreTasks : AddRefreshed(t)
    \/ \E t \in StoreTasks : RefreshCall(t)
    \/ \E t \in StoreTasks : RefreshRead(t)
    \/ \E t \in StoreTasks : RefreshCoin(t)
    \/ \E t \in StoreTasks : RefreshDone(t)
    \/ \E t \in StoreTasks : Commit(t)

SpecRefresh == InitDetail /\ [][NextRefresh]_vars

\* add-coin and refresh-all-prices, on a store that may hold a Coin from
\* an earlier add-coin whose entry was removed
SpecRefreshKnown == InitS /\ [][NextRefresh]_vars

\* the portfolios a summary is asked for: each coin with or without a price
\* and a 24h change, and up to MaxCalls entries of 0.5 or 5 coins, each a
\* value that a REAL column holds exactly, or of 0 coins, which is what the
\* column gives back for an amount as small as Under(1)
CoinRow(p, ch) == [set |-> TRUE, price |-> p, change |-> ch]
BtcRows ==
    { CoinRow(Dec(500000, 0), Num("float", 20)),
      CoinRow(Dec(500000, 0), NullNum),
      CoinRow(NullDec, Num("float", 20)) }
EthRows ==
    { CoinRow(Dec(30000, 0), Num("float", 30)),
      CoinRow(Dec(30000, 0), NullNum),
      CoinRow(NullDec, Num("float", 30)),
      CoinRow(Dec(0, 0), Num("float", 30)) }
HeldAmounts == {Dec(5, 0), Dec(50, 0)}
StoredAmounts == HeldAmounts \cup {RealColumn(Under(1), AmountScale)}
SummaryTasks == {"t1"}

InitSummary ==
    /\ now = 0
    /\ InitLimiter
    /\ InitClient
    /\ InitHistory
    /\ upstream_list = <<>>
    /\ \E b \in BtcRows, e \in EthRows :
          coins = [EmptyCoins EXCEPT !["btc"] = b, !["eth"] = e]
    /\ entries \in [EntryIds -> {NoRow} \cup
                       {[coin_id |-> c, amount |-> a] : c \in CoinIds, a \in StoredAmounts}]
    /\ next_id = MaxCalls + 1
    /\ spc = [t \in StoreTasks |-> "idle"]
    /\ sop = [t \in StoreTasks |-> NoReq]
    /\ stx = [t \in StoreTasks |-> NoTx]
    /\ sloc = [t \in StoreTasks |-> NoLoc]
    /\ sret = [t \in StoreTasks |-> NoAnswer]
    /\ ledger = [c \in CoinIds |-> NoLedger]

\* add-coin, update-entry and remove-entry with any amount in the body
NextAmounts ==
    \/ \E t \in StoreTasks : AddAmountCall(t)
    \/ \E t \in StoreTasks : UpdateAmountCall(t)
    \/ \E t \in StoreTasks : RemoveCall(t)
    \/ \E t \in StoreTasks : ValidateBody(t)
    \/ \E t \in StoreTasks : AddGetCoin(t)
    \/ \E t \in StoreTasks : AddFetch(t)
    \/ \E t \in StoreTasks : AddFlushCoin(t)
    \/ \E t \in StoreTasks : AddGetEntry(t)
    \/ \E t \in StoreTasks : AddWrite(t)
    \/ \E t \in StoreTasks : AddRefreshed(t)
    \/ \E t \in StoreTasks : UpdateFind(t)
    \/ \E t \in StoreTasks : UpdateWrite(t)
    \/ \E t \in StoreTasks : RemoveFind(t)
    \/ \E t \in StoreTasks : RemoveWrite(t)
    \/ \E t \in StoreTasks : Commit(t)

SpecAmounts == InitS /\ [][NextAmounts]_vars

\* summary requests, one after another
NextSummary ==
    \/ \E t \in SummaryTasks : SummaryCall(t)
    \/ \E t \in SummaryTasks : SummaryRead(t)
    \/ \E t \in SummaryTasks : Commit(t)

SpecSummary == InitSummary /\ [][NextSummary]_vars

\* both coins are stored; entry 1 holds btc or does not exist, entry 2
\* holds eth or does not exist
BothCoins ==
    [EmptyCoins EXCEPT !["btc"] = CoinRow(Dec(500000, 0), Num("float", 20)),
                       !["eth"] = CoinRow(Dec(30000, 0), Num("float", 30))]
HeldOrNot(i, c) == {NoRow, [coin_id |-> c, amount |-> Dec(5, 0)]}

InitSearch ==
    /\ now = 0
    /\ InitLimiter
    /\ InitClient
    /\ InitHistory
    /\ coins = BothCoins
    /\ \E b \in HeldOrNot(1, "btc"), e \in HeldOrNot(2, "eth") :
          entries = [i \in EntryIds |-> IF i = 1 THEN b ELSE IF i = 2 THEN e ELSE NoRow]
    /\ next_id = MaxCalls + 1
    /\ spc = [t \in StoreTasks |-> "idle"]
    /\ sop = [t \in StoreTasks |-> NoReq]
    /\ stx = [t \in StoreTasks |-> NoTx]
    /\ sloc = [t \in StoreTasks |-> NoLoc]
    /\ sret = [t \in StoreTasks |-> NoAnswer]
    /\ ledger = [c \in CoinIds |-> NoLedger]

\* searches and remove-entry requests, served concurrently
NextSearch ==
    \/ \E t \in StoreTasks : SearchApiCall(t)
    \/ \E t \in StoreTasks : SearchFetch(t)
    \/ \E t \in StoreTasks : SearchMark(t)
    \/ \E t \in StoreTasks : RemoveCall(t)
    \/ \E t \in StoreTasks : RemoveFind(t)
    \/ \E t \in StoreTasks : RemoveWrite(t)
    \/ \E t \in StoreTasks : Commit(t)

SpecSearch == InitSearch /\ [][NextSearch]_vars


\* ------------------------------------------------ rate limiter claims
InSection(p) == lpc[p] \in {"locked", "sleeping", "refilled"}

\* C2: with requests of 1 .. capacity tokens, in every reachable state,
\* also right after the post-wait refill and after the debit, the token
\* count stays within 0 .. capacity.
C2_TokensInRange == 0 <= tokens /\ tokens <= max_tokens

\* a caller that had to sleep has been refilled and debited, emptying the bucket
C2_Witness ==
    \E p \in Callers : lpc[p] = "done" /\ wake[p] > 0 /\ tokens = 0

\* C3: at most one caller at a time is between the first refill and the
\* debit, and the tokens debited up to time t never exceed C + R*t.
C3_SerializedAccounting ==
    /\ \A p, q \in Callers : InSection(p) /\ InSection(q) => p = q
    /\ debited <= max_tokens + now

\* one caller sleeps in the section, another queues for the lock, and more
\* than a full bucket has been debited already
C3_Witness ==
    \E p, q \in Callers :
        /\ lpc[p] = "sleeping"
        /\ lpc[q] = "waiting"
        /\ debited > max_tokens

\* C4: acquire(n) with n above the capacity is rejected at once: such a
\* caller is never queued for the lock nor inside the section, and the
\* step that rejects it leaves tokens, last_refill and the lock untouched.
C4_RejectedImmediately ==
    /\ [](\A p \in Callers : req[p] > MaxTokens => lpc[p] = "raised")
    /\ [][\A p \in Callers :
            (lpc[p] = "idle" /\ req'[p] > MaxTokens) =>
                /\ lpc'[p] = "raised"
                /\ tokens' = tokens
                /\ last_refill' = last_refill
                /\ lock' = lock]_vars

\* a request above the capacity was rejected while another caller sleeps
\* inside acquire, holding the lock
C4_Witness ==
    \E p, q \in Callers :
        /\ lpc[p] = "raised"
        /\ req[p] > MaxTokens
        /\ lpc[q] = "sleeping"
        /\ lock = q

\* C14: a call of acquire() that finds the lock free takes it at once, and
\* a call is not put to sleep while the tokens debited before it plus the
\* tokens it asks for are within the capacity: on a fresh limiter the
\* first N <= C sequential acquire(1) calls return without waiting.
C14_NoWaitWithinCapacity ==
    [][\A p \in Callers :
        /\ (/\ lpc[p] = "idle"
            /\ lpc'[p] # "idle"
            /\ req'[p] <= MaxTokens
            /\ lock = NoTask) => lpc'[p] = "locked"
        /\ (/\ lpc[p] = "locked"
            /\ lpc'[p] # "locked"
            /\ debited + Need(req[p]) <= max_tokens) => lpc'[p] = "done"]_vars

\* no time has passed, C calls of acquire(1) have been made one after the
\* other and the last has just returned, emptying the bucket
C14_Witness ==
    \E p \in Callers :
        /\ now = 0
        /\ lpc[p] = "done"
        /\ req[p] = 1
        /\ \A q \in Callers \ {p} : lpc[q] = "idle"
        /\ debited = max_tokens
        /\ tokens = 0

\* C15: once N tokens have been debited, at least (N - C)/R seconds have
\* passed since the first call of acquire() was entered.
C15_WaitBeyondCapacity ==
    IF started = NotStarted
      THEN debited = 0
      ELSE debited - max_tokens <= now - started

\* the first call came on a limiter that had been idle; C + 1 tokens have
\* been debited since, the last after a sleep, exactly 1/R seconds later
C15_Witness ==
    \E p \in Callers :
        /\ started > 0
        /\ lpc[p] = "done"
        /\ req[p] = 1
        /\ wake[p] > 0
        /\ debited = max_tokens + Need(1)
        /\ now - started = Need(1)

\* C16: under fair scheduling every call of acquire(n), 1 <= n <= C, that
\* has been entered returns, whoever else is calling, and the step that
\* ends it debits exactly n tokens.
C16_AcquireReturns ==
    /\ \A p \in FairCallers :
          (lpc[p] \in {"waiting", "locked", "sleeping", "refilled"}) ~> (lpc[p] = "done")
    /\ [][\A p \in FairCallers :
            (lpc[p] # "done" /\ lpc'[p] = "done") =>
                /\ debited' = debited + Need(req[p])
                /\ tokens' = tokens - Need(req[p])]_vars

\* a call that queued for the lock and then slept for its tokens has
\* returned, after the clock passed MaxTime
C16_Witness ==
    \E p \in FairCallers :
        /\ lpc[p] = "done"
        /\ wake[p] > MaxTime
        /\ req[p] = MaxTokens

\* ---------------------------------------------------- client claims
\* C8: every get_coins_list call that has a raw list to parse, cached or
\* fetched, returns exactly the entries that parse, in order, and does not
\* raise.
C8_ListParseIsolated ==
    \A t \in ClientTasks :
        (cpc[t] = "done" /\ cop[t].op = "list" /\ craw[t].got) =>
            cret[t] = Ok(SelectSeq(craw[t].data, CoinBaseValid))

\* C9: a search_coins(q) call that follows a completed search_coins(q)
\* against the same upstream list returns the same results and count
\* (calls whose upstream request failed in transport set aside).
C9_SearchIdempotent ==
    \A t \in ClientTasks :
        (/\ cpc[t] = "done"
         /\ cop[t].op = "search"
         /\ cop[t].prev # <<>>
         /\ cret[t].kind # "ClientError") =>
            LET prev == cop[t].prev[1] IN
                (prev.q = cop[t].q /\ prev.ret.kind # "ClientError") =>
                    cret[t] = prev.ret

\* C10: when get_coin_details ends after finding a cached record that
\* fails validation, that record is no longer stored under the coin's key.
C10_InvalidCacheDiscarded ==
    [][\A t \in ClientTasks :
        (/\ cpc[t] # "done"
         /\ cpc'[t] = "done"
         /\ cop[t].op = "detail"
         /\ craw[t].got
         /\ ~CoinDetailValid(craw[t].data[1])) =>
            ~(/\ cache'[DetailKey(cop[t].coin)].set
              /\ cache'[DetailKey(cop[t].coin)].val = InvalidRecord)]_vars

\* C11: when the coins/{id} response a get_coin_details call has fetched
\* fails validation, the call raises the ValidationError, returns no
\* record, and leaves the cache entry of that coin as it was.
C11_InvalidFetchSurfaced ==
    [][\A t \in ClientTasks :
        (/\ cpc[t] = "http"
         /\ cpc'[t] = "done"
         /\ cop[t].op = "detail"
         /\ craw'[t].http = "ok"
         /\ ~CoinDetailValid(craw'[t].resp[1])) =>
            /\ cret'[t] = Raised("ValidationError")
            /\ cret'[t].val = <<>>
            /\ cache'[DetailKey(cop[t].coin)] = cache[DetailKey(cop[t].coin)]]_vars

\* a get_coin_details call fetched a malformed response and raised, and
\* nothing is cached for its coin
C11_Witness ==
    \E t \in ClientTasks :
        /\ cpc[t] = "done"
        /\ cop[t].op = "detail"
        /\ craw[t].http = "ok"
        /\ ~CoinDetailValid(craw[t].resp[1])
        /\ cret[t].kind = "ValidationError"
        /\ ~cache[DetailKey(cop[t].coin)].set

\* C12: a call whose upstream request failed in transport or with an HTTP
\* error ends by raising that error to its caller, and no call of
\* get_coins_list or get_coin_details sends more than one request or calls
\* acquire() more than once.
C12_ErrorsPropagateNoRetry ==
    \A t \in ClientTasks :
        /\ craw[t].sent <= 1
        /\ craw[t].acquired <= 1
        /\ (cpc[t] = "done" /\ craw[t].http = "error") =>
               /\ cret[t] = Raised("ClientError")
               /\ craw[t].sent = 1
               /\ craw[t].acquired = 1

\* a get_coin_details call has ended in the error of its one request,
\* after a get_coins_list call that fetched and cached the list
C12_Witness ==
    \E t \in ClientTasks :
        /\ cpc[t] = "done"
        /\ cop[t].op = "detail"
        /\ craw[t].http = "error"
        /\ cret[t].kind = "ClientError"
        /\ craw[t].sent = 1
        /\ craw[t].acquired = 1
        /\ requests = 2
        /\ cache[COINS_LIST_CACHE_KEY].set

\* C13: a get(key) made after set(key, value, ttl) answers that value when
\* no ttl was given or fewer than ttl seconds have passed since the set,
\* and answers None when more than ttl seconds have passed.
C13_TtlExpiry ==
    [][\A t \in ClientTasks :
        (/\ cpc[t] = "idle"
         /\ cpc'[t] = "done"
         /\ cop'[t].op = "get"
         /\ stored[cop'[t].key].set) =>
            LET h == stored[cop'[t].key] IN
            /\ (h.ttl = NoExpiry \/ now < h.at + h.ttl) =>
                   cret'[t] = [kind |-> "ok", val |-> <<h.val>>, count |-> 1]
            /\ (h.ttl # NoExpiry /\ now > h.at + h.ttl) =>
                   cret'[t] = NotFound]_vars

\* a get has answered None for a key set with a ttl that has run out, while
\* a key set without a ttl at least as long ago is still stored
C13_Witness ==
    \E t \in ClientTasks, k \in DirectKeys :
        /\ cpc[t] = "done"
        /\ cop[t].op = "get"
        /\ stored[cop[t].key].set
        /\ stored[cop[t].key].ttl # NoExpiry
        /\ now > stored[cop[t].key].at + stored[cop[t].key].ttl
        /\ cret[t] = NotFound
        /\ k # cop[t].key
        /\ stored[k].set
        /\ stored[k].ttl = NoExpiry
        /\ stored[k].at <= stored[cop[t].key].at
        /\ CacheGet(k).kind = "ok"

\* ----------------------------------------------------- portfolio claims
\* C1: in every reachable state the committed portfolio_entries hold at
\* most one row per coin, under any interleaving of concurrent add-coin,
\* update-entry and remove-entry requests.
C1_OneEntryPerCoin ==
    \A i, j \in EntryIds :
        (/\ entries[i] # NoRow
         /\ entries[j] # NoRow
         /\ entries[i].coin_id = entries[j].coin_id) => i = j

\* C5: when the only requests so far were add-coin requests for coin c that
\* ran one after the other, and two or more of them committed, the table
\* holds exactly one entry for c and its amount is the exact sum of their
\* amounts.
C5_SequentialAddsExact ==
    \A c \in CoinIds :
        (ledger[c].clean /\ ledger[c].n >= 2) =>
            \E i \in EntryIds :
                /\ entries[i] = [coin_id |-> c, amount |-> Dec(ledger[c].sum, 0)]
                /\ \A j \in EntryIds : entries[j].coin_id = c => j = i

\* the coins of the log of a refresh whose fetch carried a price
Priced(log) == {k \in 1 .. Len(log) : log[k].fetched = "ok" /\ log[k].price # NullDec}

C7_NotFoundOutcome ==
    [][\A t \in StoreTasks :
        /\ (/\ spc[t] = "find"
            /\ spc'[t] # "find"
            /\ VisEntry(t, sop[t].id) = NoRow) =>
               /\ spc'[t] = "respond"
               /\ sret'[t].out = IF sop[t].kind = "update" THEN "None" ELSE "False"
               /\ sret'[t].status = 404
               /\ stx'[t] = NoTx
               /\ coins' = coins
               /\ entries' = entries
        /\ (/\ spc[t] = "respond"
            /\ spc'[t] # "respond"
            /\ sret[t].out \in {"None", "False"}) =>
               /\ sret[t].status = 404
               /\ coins' = coins
               /\ entries' = entries]_vars

\* an entry is stored, and an update-entry and a remove-entry for other ids
\* have both answered not found
C7_Witness ==
    /\ \E i \in EntryIds : entries[i] # NoRow
    /\ \E t, u \in StoreTasks :
        /\ spc[t] = "respond" /\ sop[t].kind = "update" /\ sret[t].out = "None"
        /\ spc[u] = "respond" /\ sop[u].kind = "remove" /\ sret[u].out = "False"
        /\ sret[t].status = 404
        /\ sret[u].status = 404

\* ---------------------------------------------------------------- summary
\* the entries stored, and those of them whose coin has a price
Held == {i \in EntryIds : entries[i] # NoRow}
HeldPriced == {i \in Held : coins[entries[i].coin_id].price # NullDec}

\* amount x current_price of entry i
ValueOf(i) == RatMul(Rat(entries[i].amount.t, 10), Rat(coins[entries[i].coin_id].price.t, 10))

RECURSIVE SumOfValues(_)
SumOfValues(S) ==
    IF S = {} THEN Zero
    ELSE LET i == CHOOSE k \in S : TRUE
         IN RatAdd(ValueOf(i), SumOfValues(S \ {i}))

\* C17: a summary answers 200 with total_value_usd the sum of
\* amount x current_price over exactly the entries whose coin has a price,
\* lists every stored entry once (those without a price too), and has
\* total_coins equal to the number of entries.
C17_SummaryTotals ==
    \A t \in StoreTasks :
        (spc[t] = "respond" /\ sop[t].kind = "summary") =>
            LET s == sret[t].summary IN
            /\ sret[t].out = "summary"
            /\ sret[t].status = 200
            /\ s.total = SumOfValues(HeldPriced)
            /\ {s.listed[k].id : k \in 1 .. Len(s.listed)} = Held
            /\ Len(s.listed) = Cardinality(Held)
            /\ \A k \in 1 .. Len(s.listed) :
                  /\ s.listed[k].coin_id = entries[s.listed[k].id].coin_id
                  /\ s.listed[k].amount = entries[s.listed[k].id].amount
            /\ s.total_coins = Cardinality(Held)

\* the entries with a positive current value and a known 24h change
HeldKnown ==
    {i \in HeldPriced : /\ ValueOf(i).n > 0
                        /\ coins[entries[i].coin_id].change.ty # "null"}

\* the entries with a positive current value
HeldValued == {i \in HeldPriced : ValueOf(i).n > 0}

\* change_i x value_i, summed over a set of entries
RECURSIVE SumOfChanges(_)
SumOfChanges(S) ==
    IF S = {} THEN Zero
    ELSE LET i == CHOOSE k \in S : TRUE
         IN RatAdd(RatMul(Rat(coins[entries[i].coin_id].change.v, 10), ValueOf(i)),
                   SumOfChanges(S \ {i}))

\* 0.5 BTC at 50000 (+2.0%) and 5 ETH at 3000 (+3.0%)
ExamplePortfolio ==
    /\ coins["btc"] = CoinRow(Dec(500000, 0), Num("float", 20))
    /\ coins["eth"] = CoinRow(Dec(30000, 0), Num("float", 30))
    /\ \E i, j \in EntryIds :
          /\ Held = {i, j}
          /\ entries[i] = [coin_id |-> "btc", amount |-> Dec(5, 0)]
          /\ entries[j] = [coin_id |-> "eth", amount |-> Dec(50, 0)]

\* C18: when some entry has a positive current value and a known 24h
\* change, the weighted change of a summary that is answered is the value-weighted average of
\* the changes over exactly those entries (the sum of
\* change x value / total_value, rescaled by total_value over the value with
\* known changes); for 0.5 BTC at 50000 (+2.0%) and 5 ETH at 3000 (+3.0%)
\* it is 2.375 and the total value is 40000.
C18_WeightedChange ==
    \A t \in StoreTasks :
        (spc[t] = "respond" /\ sret[t].out = "summary") =>
            LET s == sret[t].summary IN
            /\ HeldKnown # {} =>
                 /\ s.change.known
                 /\ s.change.val = RatDiv(SumOfChanges(HeldKnown), SumOfValues(HeldKnown))
                 /\ s.change.val =
                      RatMul(RatDiv(SumOfChanges(HeldKnown), s.total),
                             RatDiv(s.total, SumOfValues(HeldKnown)))
            /\ ExamplePortfolio =>
                 /\ s.total = Rat(40000, 1)
                 /\ s.change = [known |-> TRUE, val |-> Rat(2375, 1000)]

\* a summary of 0.5 and 5 ETH with a known change and of BTC that has a
\* value but no known change: the change is that of ETH, the rescaled sum
C18_Witness ==
    \E t \in StoreTasks :
        /\ spc[t] = "respond"
        /\ sret[t].out = "summary"
        /\ Cardinality(HeldKnown) = 2
        /\ {entries[i].amount : i \in HeldKnown} = HeldAmounts
        /\ HeldValued \ HeldKnown # {}
        /\ sret[t].summary.change = [known |-> TRUE, val |-> Rat(30, 10)]
        /\ sret[t].summary.total.n > SumOfValues(HeldKnown).n

\* C19: when no entry has both a current value and a known 24h change, the
\* weighted change of a summary that is answered is unknown (null) and not
\* zero; the summary of the empty portfolio is answered and has total value 0, no entries, total_coins 0 and an
\* unknown change.
C19_UnknownChange ==
    \A t \in StoreTasks :
        (spc[t] = "respond" /\ sop[t].kind = "summary") =>
            LET s == sret[t].summary IN
            /\ (sret[t].out = "summary" /\ HeldKnown = {}) =>
                 /\ ~s.change.known
                 /\ s.change # [known |-> TRUE, val |-> Zero]
            /\ Held = {} =>
                 /\ sret[t].out = "summary"
                 /\ s.total = Zero
                 /\ s.listed = <<>>
                 /\ s.total_coins = 0
                 /\ ~s.change.known

\* a summary with a total above zero whose change is unknown: one coin has
\* a price and no change, the other a change and no price, both are held
C19_Witness ==
    \E t \in StoreTasks :
        /\ spc[t] = "respond"
        /\ sret[t].out = "summary"
        /\ HeldKnown = {}
        /\ HeldValued # {}
        /\ \E i \in Held \ HeldPriced : coins[entries[i].coin_id].change.ty # "null"
        /\ sret[t].summary.total.n > 0
        /\ ~sret[t].summary.change.known

\* ---------------------------------------------------------------- amounts
\* C20: after any sequence of add-coin, update-entry and remove-entry
\* requests every stored portfolio entry has an amount above zero, and a
\* request whose amount is zero or negative is answered 422 and changes no
\* row of coins or portfolio_entries.
C20_AmountsPositive ==
    /\ [](\A i \in EntryIds : entries[i] # NoRow => Positive(entries[i].amount))
    /\ [][\A t \in StoreTasks :
            /\ (/\ spc[t] = "validate"
                /\ spc'[t] # "validate"
                /\ ~Positive(ReqAmount(sop[t]))) =>
                   /\ spc'[t] = "respond"
                   /\ sret'[t].status = 422
                   /\ stx'[t] = NoTx
            /\ (/\ spc[t] = "respond"
                /\ spc'[t] # "respond"
                /\ sret[t].out = "RequestValidationError") =>
                   /\ coins' = coins
                   /\ entries' = entries]_vars

\* ------------------------------------------------------------ coins API
\* C21: GET /coins/ with skip=s and limit=l, without search, returns exactly
\* l coins, positions s+1 .. s+l of the full coin list in list order,
\* whenever the list has that many.
C21_Pagination ==
    \A t \in ClientTasks :
        (/\ cpc[t] = "done"
         /\ cop[t].op = "coins"
         /\ cop[t].q = <<>>
         /\ cret[t].kind = "ok") =>
            LET full == SelectSeq(craw[t].data, CoinBaseValid)
                s == cop[t].skip
                l == cop[t].limit
            IN s + l <= Len(full) =>
                 /\ Len(cret[t].val) = l
                 /\ cret[t].val = SubSeq(full, s + 1, s + l)

\* the coins of the upstream list that match a query, in list order
MatchList(q) ==
    LET Hit(coin) == CoinBaseValid(coin) /\ Matches(q, coin)
    IN SelectSeq(upstream_list, Hit)

\* C22: a search that is answered returns the first min(limit, matches)
\* coins of the match list, in order, total is the number of all matches,
\* and each result has in_portfolio true exactly when a portfolio entry of
\* that coin id is stored at the time the call reads the portfolio.
C22_SearchResults ==
    [][\A t \in StoreTasks :
        (/\ spc[t] \in {"search", "mark"}
         /\ spc'[t] = "respond"
         /\ sret'[t].out = "results") =>
            LET res == sret'[t].search.results
                all == MatchList(sop[t].q)
            IN /\ sret'[t].status = 200
               /\ Len(res) <= sop[t].limit
               /\ Len(res) = Min(sop[t].limit, Len(all))
               /\ \A k \in 1 .. Len(res) :
                     /\ res[k].id = all[k].id
                     /\ res[k].symbol = all[k].symbol
                     /\ res[k].name = all[k].name
                     /\ res[k].in_portfolio =
                          (\E i \in EntryIds : entries[i].coin_id = res[k].id)
               /\ sret'[t].search.total = Len(all)]_vars

\* a search with limit 1 and two matches is answered with the first match,
\* which is in the portfolio, while the second match is not
C22_Witness ==
    \E t \in StoreTasks :
        /\ spc[t] = "respond"
        /\ sret[t].out = "results"
        /\ sop[t].limit = 1
        /\ sret[t].search.total = 2
        /\ Len(sret[t].search.results) = 1
        /\ sret[t].search.results[1].id = "btc"
        /\ sret[t].search.results[1].in_portfolio
        /\ entries[1].coin_id = "btc"
        /\ entries[2] = NoRow

\* C23: a get_coins_list call without force_refresh that finds an unexpired
\* value under the list key returns the list parsed from that value, and
\* makes no acquire and no upstream request.
C23_CachedListServed ==
    [][\A t \in ClientTasks :
        (/\ cpc[t] = "list_get"
         /\ cop[t].op = "list"
         /\ ~cop[t].force
         /\ CacheHit(COINS_LIST_CACHE_KEY)
         /\ cpc'[t] # cpc[t]) =>
            /\ cpc'[t] = "done"
            /\ cret'[t] = Ok(SelectSeq(cache[COINS_LIST_CACHE_KEY].val, CoinBaseValid))
            /\ craw'[t].acquired = 0
            /\ craw'[t].sent = 0
            /\ requests' = requests
            /\ debited' = debited
            /\ tokens' = tokens]_vars

\* C24: a get_coins_list call that is forced, or finds nothing live under
\* the list key, does not answer from the cache; it makes one acquire and
\* one upstream request, and when the request is answered it stores the raw
\* response under the list key with the list ttl and returns the list
\* parsed from that response, whatever the cache held before.
C24_FetchOnMissOrForce ==
    [][\A t \in ClientTasks :
        LET miss == cpc[t] = "list_get" /\ ~CacheHit(COINS_LIST_CACHE_KEY)
            ends == cpc[t] # "done" /\ cpc'[t] = "done"
        IN cop[t].op = "list" =>
            /\ (miss /\ cpc'[t] # cpc[t]) => cpc'[t] = "acquire"
            /\ (cop[t].force /\ cpc[t] # "http") => ~ends
            /\ (cpc[t] = "http" /\ ends) =>
                 /\ craw'[t].acquired = 1
                 /\ craw'[t].sent = 1
                 /\ requests' = requests + 1
                 /\ debited >= Need(1)
                 /\ \/ /\ cret'[t] = Ok(SelectSeq(upstream_list, CoinBaseValid))
                       /\ cache'[COINS_LIST_CACHE_KEY] =
                            [set |-> TRUE, val |-> upstream_list, exp |-> now + ListTTL]
                    \/ /\ cret'[t] = Raised("ClientError")
                       /\ cache' = cache]_vars

\* a forced call has fetched and returned the new list and replaced a live
\* cached value that differed from it
C24_Witness ==
    \E t \in ClientTasks :
        /\ cpc[t] = "done"
        /\ cop[t].op = "list"
        /\ cop[t].force
        /\ cret[t] = Ok(<<BtcItem, EthItem>>)
        /\ calls = 2
        /\ requests = 2
        /\ now < ListTTL
        /\ upstream_list = <<BtcItem, BadItem, EthItem>>
        /\ cache[COINS_LIST_CACHE_KEY].val = upstream_list

\* C25: a get_coin_details call that finds a valid unexpired record under
\* the coin's key returns that record, and debits no token and sends no
\* request; a call that finds nothing there debits one token and sends one
\* request, and a record it returns is stored under the coin's key for 5
\* seconds.
C25_DetailCacheAside ==
    [][\A t \in ClientTasks :
        LET key == DetailKey(cop[t].coin)
            hit == CacheHit(key) /\ CoinDetailValid(cache[key].val)
        IN cop[t].op = "detail" =>
            /\ (cpc[t] = "detail_get" /\ hit /\ cpc'[t] # cpc[t]) =>
                 /\ cpc'[t] = "done"
                 /\ cret'[t].kind = "ok"
                 /\ cret'[t].count = 1
                 /\ Serialized(cret'[t].val[1]) = cache[key].val
                 /\ craw'[t].acquired = 0
                 /\ craw'[t].sent = 0
                 /\ requests' = requests
                 /\ debited' = debited
                 /\ tokens' = tokens
            /\ (cpc[t] = "detail_get" /\ ~CacheHit(key) /\ cpc'[t] # cpc[t]) =>
                 cpc'[t] = "acquire"
            /\ (cpc[t] = "http" /\ cpc'[t] = "done") =>
                 /\ craw'[t].acquired = 1
                 /\ craw'[t].sent = 1
                 /\ requests' = requests + 1
                 /\ debited = Need(requests + 1)
                 /\ debited' = debited
                 /\ cret'[t].kind = "ok" =>
                       cache'[key] = [set |-> TRUE, val |-> Serialized(cret'[t].val[1]),
                                      exp |-> now + 5]
            /\ cpc[t] \in {"detail_get", "done"} => debited = Need(requests)]_vars

\* a second call for a coin, made before the 5 seconds are over, has
\* returned the cached record: two calls, one request, one token debited
C25_Witness ==
    \E t \in ClientTasks :
        /\ cpc[t] = "done"
        /\ cop[t].op = "detail"
        /\ cret[t].kind = "ok"
        /\ craw[t].got
        /\ craw[t].sent = 0
        /\ calls = 2
        /\ requests = 1
        /\ debited = Need(1)
        /\ now > 0

\* C26: a call sends an upstream request only after its own acquire(1) has
\* returned, so the requests sent never outnumber the tokens debited, and a
\* request that fails leaves the limiter as it is.
C26_RequestsWithinDebits ==
    [][/\ Need(requests) <= debited
       /\ \A t \in SharedTasks :
            /\ craw[t].sent <= craw[t].acquired
            /\ cpc[t] = "http" => (craw[t].acquired = 1 /\ lpc[t] = "idle")
            /\ requests' > requests /\ craw'[t].sent > craw[t].sent =>
                 /\ cpc[t] = "http"
                 /\ debited' = debited
                 /\ tokens' = tokens]_vars

\* two calls have each debited a token and sent a request, one request
\* failed, and the bucket is empty
C26_Witness ==
    /\ requests = 2
    /\ debited = Need(2)
    /\ tokens = 0
    /\ \E t \in SharedTasks :
          /\ cpc[t] = "done"
          /\ craw[t].http = "error"
          /\ cret[t].kind = "ClientError"

\* C27: the client holds no session before its first upstream request; a
\* request uses the open session when there is one and makes a session
\* only when none is held or the one held is closed, so never more than one
\* session is open; close() leaves no session open.
C27_OneSession ==
    [][/\ session.made - session.shut \in {0, 1}
       /\ session.state = "open" <=> session.made - session.shut = 1
       /\ requests = 0 => session = NoSession
       /\ requests' > requests =>
            /\ session'.state = "open"
            /\ session'.shut = session.shut
            /\ session'.made = IF session.state = "open" THEN session.made
                                                          ELSE session.made + 1
       /\ session'.shut > session.shut =>
            /\ session.state = "open"
            /\ session'.state = "closed"
            /\ session'.made = session.made
       /\ session'.made <= session.shut + 1]_vars

\* three requests have been sent, by two tasks, the first two over one
\* session and the third, after a close(), over a second session
C27_Witness ==
    /\ requests = 3
    /\ session = [state |-> "open", made |-> 2, shut |-> 1]
    /\ \E t \in SharedTasks : cpc[t] = "done" /\ craw[t].sent = 1

\* C28: an add-coin request goes on to get_coin_details exactly when the
\* coins table holds no row of the requested id, and hands the record it
\* gets to create_coin, which a successful request commits as a new row;
\* a request that finds the Coin makes no upstream request, debits no
\* token and writes nothing to the coins table.
C28_FetchIffCoinAbsent ==
    [][\A t \in StoreTasks :
        LET c == sop[t].coin
            steps == spc'[t] # spc[t]
        IN /\ (spc[t] = "get_coin" /\ steps) =>
                /\ spc'[t] = "fetch" <=> ~coins[c].set
                /\ spc'[t] = "get_entry" <=> coins[c].set
                /\ stx'[t].coins = NoTx.coins
           /\ (spc[t] = "fetch" /\ spc'[t] = "flush_coin") =>
                LET r == cache'[DetailKey(c)].val IN
                stx'[t].coins[r.id] =
                    [op |-> "add", price |-> ToDec(ToDecimal(r.price)),
                     change |-> r.change, chg |-> TRUE]
           /\ (spc[t] \notin {"idle", "fetch"} /\ steps) =>
                /\ requests' = requests
                /\ debited' = debited
                /\ tokens' = tokens
           /\ (spc[t] \in {"get_entry", "write", "refreshed"} /\ steps) =>
                stx'[t].coins = stx[t].coins
           /\ (spc[t] = "respond" /\ steps /\ sop[t].kind = "add") =>
                \A k \in CoinKeys :
                    IF sret[t].status = 200 /\ stx[t].coins[k].op = "ins"
                      THEN /\ ~coins[k].set
                           /\ coins'[k] = [set |-> TRUE, price |-> stx[t].coins[k].price,
                                           change |-> stx[t].coins[k].change]
                      ELSE coins'[k] = coins[k]]_vars

\* after an add-coin that fetched and stored the Coin, a second add-coin
\* has gone through without a request and without a write to coins
C28_Witness ==
    /\ calls = 2
    /\ requests = 1
    /\ debited = Need(1)
    /\ coins["btc"].set
    /\ ledger["btc"].n = 1
    /\ \E t \in StoreTasks :
          /\ spc[t] = "respond"
          /\ sop[t].kind = "add"
          /\ sret[t].status = 200
          /\ stx[t].coins = NoTx.coins

\* C29: an add-coin request whose fetch raises answers with an error
\* without a step of step 2, and no coins row and no portfolio_entries row
\* is created or changed by it; the entry write of a request is made only
\* after its step 1 is over, with the Coin of the entry in place.
C29_StepOneFailureIsClean ==
    [][\A t \in StoreTasks :
        LET c == sop[t].coin
            steps == spc'[t] # spc[t]
        IN sop[t].kind = "add" =>
           /\ (spc[t] = "fetch" /\ steps /\ spc'[t] # "flush_coin") =>
                /\ spc'[t] = "respond"
                /\ sret'[t].out \in {"ClientError", "ValidationError"}
                /\ sret'[t].status \in {400, 422}
                /\ stx'[t] = NoTx
                /\ next_id' = next_id
           /\ (spc[t] = "respond" /\ steps) =>
                /\ spc'[t] = "idle"
                /\ sret[t].status # 200 => (coins' = coins /\ entries' = entries)
           /\ (steps /\ spc'[t] = "get_entry") => spc[t] \in {"get_coin", "flush_coin"}
           /\ (steps /\ spc'[t] = "write") => spc[t] = "get_entry"
           /\ (steps /\ spc'[t] = "refreshed") => spc[t] = "write"
           /\ stx'[t].ent # stx[t].ent /\ stx'[t].ent.op # "none" =>
                /\ spc[t] = "write"
                /\ \A k \in CoinKeys : stx[t].coins[k].op # "add"
                /\ VisCoin(t, c).set]_vars

\* an add-coin request for a coin that is not stored has failed in its fetch
\* and answers 400 with nothing written and nothing pending
C29_Witness ==
    /\ requests = 1
    /\ coins = EmptyCoins
    /\ \A i \in EntryIds : entries[i] = NoRow
    /\ next_id = 1
    /\ \E t \in StoreTasks :
          /\ spc[t] = "respond"
          /\ sop[t].kind = "add"
          /\ sret[t].out = "ClientError"
          /\ sret[t].status = 400
          /\ stx[t] = NoTx

\* C30: an update-entry request on a stored entry that is answered 200
\* returns the entry as it is stored and commits exactly the requested
\* amount as the amount of that entry, replacing the old one; the entry's
\* coin, every other entry and the coins table are as before, and a second
\* update with the same amount leaves the entry as the first one left it.
C30_UpdateReplacesAmount ==
    [][\A t \in StoreTasks :
        (/\ sop[t].kind = "update"
         /\ spc[t] = "respond"
         /\ spc'[t] # spc[t]
         /\ sret[t].status = 200) =>
            LET i == sop[t].id IN
            /\ entries'[i].amount = ReqAmount(sop[t])
            /\ sret[t].amount = entries'[i].amount
            /\ entries'[i].coin_id = entries[i].coin_id
            /\ \A j \in EntryIds \ {i} : entries'[j] = entries[j]
            /\ coins' = coins
            /\ entries[i].amount = ReqAmount(sop[t]) => entries' = entries]_vars

\* C31: a remove-entry request that finds its entry answers True with 200,
\* and when it ends the entry is no longer stored while the coins table and
\* every other entry are as before; a remove-entry for an id whose entry
\* is gone answers the not-found outcome.
C31_RemoveDeletesEntry ==
    [][\A t \in StoreTasks :
        LET i == sop[t].id
            steps == spc'[t] # spc[t]
        IN sop[t].kind = "remove" =>
           /\ (spc[t] = "find" /\ steps) =>
                IF entries[i] = NoRow
                  THEN sret'[t].out = "False" /\ sret'[t].status = 404
                  ELSE spc'[t] = "write_found" /\ sret'[t] = NoAnswer
           /\ (spc[t] = "write_found" /\ steps) =>
                /\ sret'[t].out = "True"
                /\ sret'[t].status = 200
                /\ entries' = entries
           /\ (spc[t] = "respond" /\ steps /\ sret[t].out = "True") =>
                /\ entries'[i] = NoRow
                /\ \A j \in EntryIds \ {i} : entries'[j] = entries[j]
                /\ coins' = coins]_vars

\* an entry was added and removed, its Coin is still stored, and a second
\* remove-entry of the same id has answered not found
C31_Witness ==
    /\ calls = 3
    /\ next_id = 2
    /\ coins["btc"].set
    /\ \A i \in EntryIds : entries[i] = NoRow
    /\ \E t \in StoreTasks :
          /\ spc[t] = "respond"
          /\ sop[t].kind = "remove"
          /\ sop[t].id = 1
          /\ sret[t].out = "False"
          /\ sret[t].status = 404

\* the coins a refresh found held at its initial read, and those of them
\* for which a round of its loop fetched a record with a price
HeldCoins(t) == {sloc[t].held[k] : k \in 1 .. Len(sloc[t].held)}
FetchedPriced(t) ==
    {c \in HeldCoins(t) :
        \E k \in 1 .. Len(sloc[t].log) :
            /\ sloc[t].log[k].coin = c
            /\ sloc[t].log[k].fetched = "ok"
            /\ sloc[t].log[k].price # NullDec}

\* C32: the count a refresh-all-prices request returns is the number of
\* held coins whose fetch succeeded and carried a price, and a held coin
\* whose fetched record carries no price has no write pending.
C32_RefreshCount ==
    \A t \in StoreTasks :
        (sop[t].kind = "refresh" /\ spc[t] = "respond") =>
            /\ sret[t].out = "count"
            /\ sret[t].count = Cardinality(FetchedPriced(t))
            /\ \A c \in HeldCoins(t) \ FetchedPriced(t) : stx[t].coins[c].op = "none"

\* the last round of a refresh loop for coin c that was counted as updated,
\* or 0
LastCounted(t, c) ==
    LET ks == {k \in 1 .. Len(sloc[t].log) :
                 /\ sloc[t].log[k].coin = c
                 /\ sloc[t].log[k].fetched = "ok"
                 /\ sloc[t].log[k].price # NullDec}
    IN IF ks = {} THEN 0 ELSE CHOOSE k \in ks : \A j \in ks : j <= k

\* C33: when a refresh-all-prices request ends, every coin it counted as
\* updated is stored with the current price and the 24h change of the
\* record fetched for it, also when that record carries no 24h change.
C33_RefreshStoresFetched ==
    [][\A t \in StoreTasks :
        (/\ sop[t].kind = "refresh"
         /\ spc[t] = "respond"
         /\ spc'[t] # spc[t]
         /\ sret[t].status = 200) =>
            \A c \in CoinIds :
                LastCounted(t, c) # 0 =>
                    /\ coins'[c].price = sloc[t].log[LastCounted(t, c)].price
                    /\ coins'[c].change = sloc[t].log[LastCounted(t, c)].change]_vars

\* C34: the coins a refresh-all-prices request works on are those with an
\* entry at its initial read; only they have a write pending, and the end
\* of the request changes no row of a coin outside them, adds and removes
\* no coin, and changes no entry.
C34_RefreshFrame ==
    [][\A t \in StoreTasks :
        sop[t].kind = "refresh" =>
           /\ (spc[t] = "read_held" /\ spc'[t] # spc[t]) =>
                HeldCoins(t)' = {entries[i].coin_id : i \in {j \in EntryIds : entries[j] # NoRow}}
           /\ \A c \in CoinKeys : stx[t].coins[c].op # "none" =>
                (c \in HeldCoins(t) /\ stx[t].coins[c].op = "upd")
           /\ stx[t].ent = NoWrite
           /\ (spc[t] = "respond" /\ spc'[t] # spc[t]) =>
                /\ \A c \in CoinKeys \ HeldCoins(t) : coins'[c] = coins[c]
                /\ \A c \in CoinKeys : coins'[c].set = coins[c].set
                /\ entries' = entries
                /\ next_id' = next_id]_vars

\* a refresh has updated the one held coin, eth, and has no write for btc,
\* which is stored and not held
C34_Witness ==
    \E t \in StoreTasks :
        /\ sop[t].kind = "refresh"
        /\ spc[t] = "respond"
        /\ sret[t].count = 1
        /\ HeldCoins(t) = {"eth"}
        /\ coins["btc"].set
        /\ stx[t].coins["btc"].op = "none"
        /\ stx[t].coins["eth"].op = "upd"

\* C35: in every reachable state the coin_id of each stored entry is the id
\* of a stored Coin, and so is the coin_id of an entry write that a session
\* holds, also when the record fetched for an add-coin carries another id
\* than the one requested.
C35_EntriesReferToCoins ==
    /\ \A i \in EntryIds : entries[i] # NoRow => coins[entries[i].coin_id].set
    /\ \A t \in StoreTasks :
         stx[t].ent.op \in {"ins", "upd"} => VisCoin(t, stx[t].ent.row.coin_id).set

\* an add-coin for btc fetched a valid record with another id, stored a
\* Coin under that id in its session, and its entry INSERT was refused
C35_Witness ==
    \E t \in StoreTasks :
        /\ spc[t] = "respond"
        /\ sop[t].kind = "add"
        /\ sop[t].coin = "btc"
        /\ stx[t].coins[""].op = "ins"
        /\ ~coins["btc"].set
        /\ sret[t].out = "IntegrityError"
        /\ sret[t].status = 400
        /\ stx[t].ent = NoWrite

\* two characters that are the same letter in either case
SameLetter(a, b) ==
    \/ a = b
    \/ {a, b} \in { {"b", "B"}, {"e", "E"}, {"t", "T"} }

\* q is a contiguous part of str, letter case ignored
ContainsNoCase(q, str) ==
    \E i \in 0 .. (Len(str) - Len(q)) :
        \A j \in 1 .. Len(q) : SameLetter(str[i + j], q[j])

\* C36: a search_coins(q) call that returns gives exactly the coins of the
\* list whose name or symbol contains q, letter case ignored, in the order
\* of the list, and as count the number of coins it returns.
C36_SearchMatches ==
    \A t \in ClientTasks :
        (cpc[t] = "done" /\ cop[t].op = "search" /\ cret[t].kind = "ok") =>
            LET full == SelectSeq(craw[t].data, CoinBaseValid)
                Wanted(coin) == \/ ContainsNoCase(cop[t].q, coin.name)
                                \/ ContainsNoCase(cop[t].q, coin.symbol)
            IN /\ cret[t].val = SelectSeq(full, Wanted)
               /\ cret[t].count = Len(cret[t].val)

\* a search for "Th" in a list of two coins has returned Eth alone, with
\* count 1
C36_Witness ==
    \E t \in ClientTasks :
        /\ cpc[t] = "done"
        /\ cop[t].op = "search"
        /\ cop[t].q = <<"T", "h">>
        /\ cret[t] = [kind |-> "ok", val |-> <<EthItem>>, count |-> 1]
        /\ BtcItem \in {craw[t].data[k] : k \in 1 .. Len(craw[t].data)}

\* C37: an acquire(n) call with n <= 0 adds no token to the bucket, so the
\* bucket never holds more than its capacity after any call that passes
\* the capacity check.
C37_NonPositiveAddsNothing ==
    [][/\ tokens' <= max_tokens
       /\ \A p \in FairCallers :
            (req[p] <= 0 /\ lpc[p] \in {"locked", "refilled"} /\ lpc'[p] = "done") =>
                tokens' <= tokens]_vars

\* C38: when the upstream request of a get_coins_list or get_coin_details
\* call fails, the call raises and the cache is as it was before: a list
\* that was live under the list key is still live with the same value and
\* expiry, and nothing is stored under the coin's detail key.
C38_FailureKeepsCache ==
    [][\A t \in ClientTasks :
        (cpc[t] = "http" /\ cpc'[t] = "done" /\ craw'[t].http = "error") =>
            /\ cret'[t] = Raised("ClientError")
            /\ cache' = cache
            /\ CacheHit(COINS_LIST_CACHE_KEY) =>
                 /\ Live(COINS_LIST_CACHE_KEY)'
                 /\ cache'[COINS_LIST_CACHE_KEY].val = cache[COINS_LIST_CACHE_KEY].val
            /\ cop[t].op = "detail" =>
                 cache'[DetailKey(cop[t].coin)] = cache[DetailKey(cop[t].coin)]]_vars

\* a forced get_coins_list call has failed while a fetched list was live
\* in the cache, and the list is still there
C38_Witness ==
    \E t \in ClientTasks :
        /\ cpc[t] = "done"
        /\ cop[t].op = "list"
        /\ cop[t].force
        /\ craw[t].http = "error"
        /\ cret[t].kind = "ClientError"
        /\ requests = 2
        /\ CacheHit(COINS_LIST_CACHE_KEY)
        /\ cache[COINS_LIST_CACHE_KEY].val = upstream_list


\* C39: no add is lost.  When an add-coin request for a coin that is
\* already held commits, the stored amount of the coin's entry becomes the
\* amount stored just before the commit plus the amount of the request, so
\* two concurrent adds of A and B to an entry of X leave X + A + B.  The
\* amounts are compared in whole tenths, which the float4 column keeps.
C39_NoAddLost ==
    [][\A t \in StoreTasks :
        (/\ spc[t] = "respond"
         /\ spc'[t] = "idle"
         /\ sop[t].kind = "add"
         /\ sret[t].status = 200
         /\ stx[t].ent.op = "upd"
         /\ entries[stx[t].ent.id] # NoRow) =>
            entries'[stx[t].ent.id].amount.t =
                entries[stx[t].ent.id].amount.t + sop[t].amount]_vars


\* C40: an add-coin request for a coin that runs after the concurrent adds
\* for the coin have ended, with no other request in flight from its start
\* on, is not failed by its single-row lookups: neither
\* get_entry_by_coin_id nor get_refreshed_entry answers it with
\* MultipleResultsFound.
C40_LookupsFindOneRow ==
    \A t \in StoreTasks :
        (sop[t].kind = "add" /\ sop[t].solo) =>
            sret[t].out # "MultipleResultsFound"
====
